---- MODULE Spec2Model ----
(***************************************************************************)
(* Model of the end-to-end payload protection engines of perc-webrtc:      *)
(*   DoublePERC  (modules/rtp_rtcp/source/double_perc.cc, 7-byte OHB)      *)
(*   MediaCrypto (webrtc/modules/rtp_rtcp/source/media_crypto.cc, 11-byte  *)
(*                OHB)                                                     *)
(* Two engine instances of one kind, a sender "snd" and a receiver "rcv",  *)
(* are driven through SetOutboundKey / SetInboundKey / Encrypt / Decrypt.  *)
(* The SRTP engine (libsrtp) is modelled by a toy cipher that is not the   *)
(* identity: it leaves the 12-byte RTP header in the clear, shifts every   *)
(* following byte by a key-dependent amount and appends an authentication  *)
(* tag that depends on the key, the suite and the packet bytes.            *)
(***************************************************************************)
EXTENDS Integers, Sequences, FiniteSets, TLC

VARIABLES kind, engines, last

vars == <<kind, engines, last>>

(***************************************************************************)
(* Bounds                                                                  *)
(***************************************************************************)
\* longest plaintext payload
MaxLen == 5

\* number of distinct key buffers
MaxKey == 2

(***************************************************************************)
(* Program constants                                                       *)
(***************************************************************************)
\* a null pointer (key == nullptr)
NULL == 0

\* rtc:: cipher suite identifiers (rtc_base/sslstreamadapter.h)
SRTP_INVALID_CRYPTO_SUITE == "SRTP_INVALID_CRYPTO_SUITE"

SRTP_AES128_CM_SHA1_80 == "SRTP_AES128_CM_SHA1_80"

SRTP_AES128_CM_SHA1_32 == "SRTP_AES128_CM_SHA1_32"

SRTP_AEAD_AES_128_GCM == "SRTP_AEAD_AES_128_GCM"

SRTP_AEAD_AES_256_GCM == "SRTP_AEAD_AES_256_GCM"

\* libsrtp srtp_ssrc_type_t values used as direction policy
ssrc_any_inbound == "ssrc_any_inbound"

ssrc_any_outbound == "ssrc_any_outbound"

DoublePERC_ohb_size == 7

MediaCrypto_ohb_size == 11

RtpHeaderLen == 12

Kinds == {"DoublePERC", "MediaCrypto"}

Engines == {"snd", "rcv"}

CipherSuites == {SRTP_INVALID_CRYPTO_SUITE, SRTP_AES128_CM_SHA1_80,
                 SRTP_AES128_CM_SHA1_32, SRTP_AEAD_AES_128_GCM,
                 SRTP_AEAD_AES_256_GCM}

SupportedSuites == CipherSuites \ {SRTP_INVALID_CRYPTO_SUITE}

\* key pointers: NULL or the identity of a key buffer
Keys == 1..MaxKey

\* session_ == nullptr
NullSession == [alloc |-> FALSE, type |-> "none", cs |-> "none", key |-> NULL]

KeyLens == {28, 30, 44}

SrtpStatus == {"ok", "replay_fail", "fail"}

ohb_size(k) == IF k = "DoublePERC" THEN DoublePERC_ohb_size ELSE MediaCrypto_ohb_size

(***************************************************************************)
(* Byte helpers                                                            *)
(***************************************************************************)
Byte(x) == x % 256

Shr(x, n) == x \div (2 ^ n)

Min(a, b) == IF a < b THEN a ELSE b

RECURSIVE SumTo(_, _)
SumTo(s, n) == IF n = 0 THEN 0 ELSE s[n] + SumTo(s, n - 1)

\* the sum of the bytes of s
SumSeq(s) == SumTo(s, Len(s))

\* memcpy(dst, src + off, n): the first n bytes of dst are overwritten with
\* src[off .. off+n-1] (0-based off); the rest of dst is kept.
Memcpy(dst, src, off, n) ==
    [i \in 1..Len(dst) |-> IF i <= n THEN src[off + i] ELSE dst[i]]

(***************************************************************************)
(* The RTP packet container (rtp::Packet) as seen by the engines           *)
(***************************************************************************)
\* the first 12 bytes of packet->data(): V/P/X/CC, M|PT, seq, timestamp, SSRC
Packet_data(packet) ==
    << 128,
       (IF packet.marker THEN 128 ELSE 0) + packet.pt,
       Byte(Shr(packet.seq, 8)), Byte(packet.seq),
       Byte(Shr(packet.ts, 24)), Byte(Shr(packet.ts, 16)),
       Byte(Shr(packet.ts, 8)), Byte(packet.ts),
       Byte(Shr(packet.ssrc, 24)), Byte(Shr(packet.ssrc, 16)),
       Byte(Shr(packet.ssrc, 8)), Byte(packet.ssrc) >>

\* packet->AllocatePayload(size): fails (null, packet untouched) if size
\* exceeds the capacity, else the payload becomes a writable view of size
\* bytes (modelled zero-filled until written)
AllocatePayload(packet, size) ==
    IF size > packet.max
    THEN [buffer |-> FALSE, packet |-> packet]
    ELSE [buffer |-> TRUE,
          packet |-> [packet EXCEPT !.payload = [i \in 1..size |-> 0]]]

\* packet->SetPayloadSize(size): resize the payload, keeping its first bytes
SetPayloadSize(packet, size) ==
    IF size > packet.max
    THEN packet
    ELSE [packet EXCEPT !.payload =
             [i \in 1..size |-> IF i <= Len(packet.payload)
                                THEN packet.payload[i] ELSE 0]]

(***************************************************************************)
(* The SRTP engine behind srtp_create / srtp_protect / srtp_unprotect      *)
(***************************************************************************)
\* rtc::GetSrtpKeyAndSaltLengths: key_len + salt_len of a suite, 0 if unknown
GetSrtpKeyAndSaltLengths(cs) ==
    CASE cs = SRTP_AES128_CM_SHA1_80 -> [ok |-> TRUE, key_len |-> 16, salt_len |-> 14]
      [] cs = SRTP_AES128_CM_SHA1_32 -> [ok |-> TRUE, key_len |-> 16, salt_len |-> 14]
      [] cs = SRTP_AEAD_AES_128_GCM  -> [ok |-> TRUE, key_len |-> 16, salt_len |-> 12]
      [] cs = SRTP_AEAD_AES_256_GCM  -> [ok |-> TRUE, key_len |-> 32, salt_len |-> 12]
      [] OTHER -> [ok |-> FALSE, key_len |-> 0, salt_len |-> 0]

\* auth_tag_len set by the srtp_crypto_policy_set_* functions
srtp_crypto_policy_set_aes_cm_128_hmac_sha1_80 == 10

srtp_crypto_policy_set_aes_cm_128_hmac_sha1_32 == 4

srtp_crypto_policy_set_aes_gcm_128_16_auth == 16

srtp_crypto_policy_set_aes_gcm_256_16_auth == 16

\* the tag length the engine itself uses for a session
SessionTagLen(session) ==
    CASE session.cs = SRTP_AES128_CM_SHA1_80 -> srtp_crypto_policy_set_aes_cm_128_hmac_sha1_80
      [] session.cs = SRTP_AES128_CM_SHA1_32 -> srtp_crypto_policy_set_aes_cm_128_hmac_sha1_32
      [] session.cs = SRTP_AEAD_AES_128_GCM  -> srtp_crypto_policy_set_aes_gcm_128_16_auth
      [] session.cs = SRTP_AEAD_AES_256_GCM  -> srtp_crypto_policy_set_aes_gcm_256_16_auth
      [] OTHER -> 0

SuiteIndex(cs) ==
    CASE cs = SRTP_AES128_CM_SHA1_80 -> 1
      [] cs = SRTP_AES128_CM_SHA1_32 -> 2
      [] cs = SRTP_AEAD_AES_128_GCM  -> 3
      [] cs = SRTP_AEAD_AES_256_GCM  -> 4
      [] OTHER -> 0

\* key stream byte of a session (never 0, so encryption is not the identity)
KeyStream(session) == 16 * session.key + SuiteIndex(session.cs)

\* authentication tag byte over the header and the ciphertext
TagByte(session, bytes) == Byte(SumSeq(bytes) + 7 * KeyStream(session))

\* srtp_protect(session, p, &len): p holds len bytes of an RTP packet; the
\* 12-byte header stays in the clear, the rest is encrypted in place and the
\* tag is appended.  verdict is the engine's own decision to accept.
srtp_protect(session, p, len, verdict) ==
    IF verdict # "ok" \/ len < RtpHeaderLen
    THEN [status |-> IF verdict = "ok" THEN "fail" ELSE verdict,
          p |-> p, len |-> len]
    ELSE LET enc == [i \in 1..len |->
                       IF i <= RtpHeaderLen THEN p[i]
                       ELSE Byte(p[i] + KeyStream(session))]
             t   == TagByte(session, enc)
             tag == [i \in 1..SessionTagLen(session) |-> t]
         IN  [status |-> "ok", p |-> enc \o tag, len |-> len + Len(tag)]

\* srtp_unprotect(session, p, &len): checks the replay database (verdict),
\* then the tag, then decrypts in place and removes the tag.  On any failure
\* the buffer and the length are left as they were.
srtp_unprotect(session, p, len, verdict) ==
    LET tl   == SessionTagLen(session)
        body == SubSeq(p, 1, len - tl)
        tag  == SubSeq(p, len - tl + 1, len)
        t    == TagByte(session, body)
        good == /\ len >= RtpHeaderLen + tl
                /\ \A i \in 1..tl : tag[i] = t
    IN  IF verdict # "ok" \/ ~good
        THEN [status |-> IF verdict = "ok" THEN "fail" ELSE verdict,
              p |-> p, len |-> len]
        ELSE [status |-> "ok",
              p |-> [i \in 1..(len - tl) |->
                       IF i <= RtpHeaderLen THEN p[i]
                       ELSE Byte(p[i] + 256 - KeyStream(session))],
              len |-> len - tl]

(***************************************************************************)
(* class DoublePERC                                                               *)
(***************************************************************************)
\* DoublePERC::DoublePERC(): session_(nullptr), both tag lengths 0
DoublePERC_Init == [session_ |-> NullSession, rtp_auth_tag_len_ |-> 0,
             rtcp_auth_tag_len_ |-> 0]

\* the srtp_policy_t filled in by SetKey for a suite; ok = FALSE: unsupported
DoublePERC_Policy(cs) ==
    CASE cs = SRTP_AES128_CM_SHA1_80 ->
           [ok |-> TRUE, rtp |-> srtp_crypto_policy_set_aes_cm_128_hmac_sha1_80,
            rtcp |-> srtp_crypto_policy_set_aes_cm_128_hmac_sha1_80]
      [] cs = SRTP_AES128_CM_SHA1_32 ->
           [ok |-> TRUE, rtp |-> srtp_crypto_policy_set_aes_cm_128_hmac_sha1_32,
            rtcp |-> srtp_crypto_policy_set_aes_cm_128_hmac_sha1_80]
      [] cs = SRTP_AEAD_AES_128_GCM ->
           [ok |-> TRUE, rtp |-> srtp_crypto_policy_set_aes_gcm_128_16_auth,
            rtcp |-> srtp_crypto_policy_set_aes_gcm_128_16_auth]
      [] cs = SRTP_AEAD_AES_256_GCM ->
           [ok |-> TRUE, rtp |-> srtp_crypto_policy_set_aes_gcm_256_16_auth,
            rtcp |-> srtp_crypto_policy_set_aes_gcm_256_16_auth]
      [] OTHER -> [ok |-> FALSE, rtp |-> 0, rtcp |-> 0]

\* DoublePERC::SetKey without the "session already created" test
DoublePERC_SetKey_Replace(e, type, cs, key, len, create_ok) ==
    LET policy   == DoublePERC_Policy(cs)
        expected == GetSrtpKeyAndSaltLengths(cs)
    IN  IF FALSE
        THEN [ret |-> FALSE, exit |-> "already_created", e |-> e]
        ELSE IF ~policy.ok
        THEN [ret |-> FALSE, exit |-> "unsupported_suite", e |-> e]
        ELSE IF ~expected.ok
        THEN [ret |-> FALSE, exit |-> "no_length_information", e |-> e]
        ELSE IF key = NULL \/ len # expected.key_len + expected.salt_len
        THEN [ret |-> FALSE, exit |-> "invalid_key", e |-> e]
        ELSE IF ~create_ok
        THEN [ret |-> FALSE, exit |-> "create_failed",
              e |-> [e EXCEPT !.session_ = NullSession]]
        ELSE [ret |-> TRUE, exit |-> "ok",
              e |-> [session_ |-> [alloc |-> TRUE, type |-> type,
                                   cs |-> cs, key |-> key],
                     rtp_auth_tag_len_ |-> policy.rtp,
                     rtcp_auth_tag_len_ |-> policy.rtcp]]

\* DoublePERC::SetKey(type, cs, key, len); create_ok is the outcome of srtp_create
DoublePERC_SetKey(e, type, cs, key, len, create_ok) ==
    LET policy   == DoublePERC_Policy(cs)
        expected == GetSrtpKeyAndSaltLengths(cs)
    IN  IF e.session_ # NullSession
        THEN [ret |-> FALSE, exit |-> "already_created", e |-> e]
        ELSE IF ~policy.ok
        THEN [ret |-> FALSE, exit |-> "unsupported_suite", e |-> e]
        ELSE IF ~expected.ok
        THEN [ret |-> FALSE, exit |-> "no_length_information", e |-> e]
        ELSE IF key = NULL \/ len # expected.key_len + expected.salt_len
        THEN [ret |-> FALSE, exit |-> "invalid_key", e |-> e]
        ELSE IF ~create_ok
        THEN [ret |-> FALSE, exit |-> "create_failed",
              e |-> [e EXCEPT !.session_ = NullSession]]
        ELSE [ret |-> TRUE, exit |-> "ok",
              e |-> [session_ |-> [alloc |-> TRUE, type |-> type,
                                   cs |-> cs, key |-> key],
                     rtp_auth_tag_len_ |-> policy.rtp,
                     rtcp_auth_tag_len_ |-> policy.rtcp]]

\* DoublePERC::ProtectRtp(p, in_len, max_len, &out_len)
DoublePERC_ProtectRtp(e, p, in_len, max_len, verdict) ==
    IF e.session_ = NullSession
    THEN [ret |-> FALSE, exit |-> "no_session", p |-> p, out_len |-> 0,
          called |-> FALSE, status |-> "none"]
    ELSE LET need_len == in_len + e.rtp_auth_tag_len_
         IN  IF max_len < need_len
             THEN [ret |-> FALSE, exit |-> "buffer_too_small", p |-> p,
                   out_len |-> 0, called |-> FALSE, status |-> "none"]
             ELSE LET r == srtp_protect(e.session_, p, in_len, verdict)
                  IN  IF r.status # "ok"
                      THEN [ret |-> FALSE, exit |-> "protect_failed",
                            p |-> r.p, out_len |-> r.len, called |-> TRUE,
                            status |-> r.status]
                      ELSE [ret |-> TRUE, exit |-> "ok", p |-> r.p,
                            out_len |-> r.len, called |-> TRUE,
                            status |-> r.status]

\* DoublePERC::UnprotectRtp without the test of session_
DoublePERC_UnprotectRtp_NoSessionTest(e, p, in_len, verdict) ==
    LET r == srtp_unprotect(e.session_, p, in_len, verdict)
    IN  IF r.status # "ok"
        THEN [ret |-> FALSE, exit |-> "unprotect_failed", p |-> r.p,
              out_len |-> r.len, called |-> TRUE, status |-> r.status]
        ELSE [ret |-> TRUE, exit |-> "ok", p |-> r.p,
              out_len |-> r.len, called |-> TRUE, status |-> r.status]

\* DoublePERC::UnprotectRtp(p, in_len, &out_len)
DoublePERC_UnprotectRtp(e, p, in_len, verdict) ==
    IF e.session_ = NullSession
    THEN [ret |-> FALSE, exit |-> "no_session", p |-> p, out_len |-> 0,
          called |-> FALSE, status |-> "none"]
    ELSE LET r == srtp_unprotect(e.session_, p, in_len, verdict)
         IN  IF r.status # "ok"
             THEN [ret |-> FALSE, exit |-> "unprotect_failed", p |-> r.p,
                   out_len |-> r.len, called |-> TRUE, status |-> r.status]
             ELSE [ret |-> TRUE, exit |-> "ok", p |-> r.p,
                   out_len |-> r.len, called |-> TRUE, status |-> r.status]

(***************************************************************************)
(* class MediaCrypto                                                               *)
(***************************************************************************)
\* MediaCrypto::MediaCrypto(): session_(nullptr), both tag lengths 0
MediaCrypto_Init == [session_ |-> NullSession, rtp_auth_tag_len_ |-> 0,
             rtcp_auth_tag_len_ |-> 0]

\* the policy of SetKey with the 32-bit tag also set for RTCP
MediaCrypto_Policy_Rtcp32(cs) ==
    CASE cs = SRTP_AES128_CM_SHA1_80 ->
           [ok |-> TRUE, rtp |-> srtp_crypto_policy_set_aes_cm_128_hmac_sha1_80,
            rtcp |-> srtp_crypto_policy_set_aes_cm_128_hmac_sha1_80]
      [] cs = SRTP_AES128_CM_SHA1_32 ->
           [ok |-> TRUE, rtp |-> srtp_crypto_policy_set_aes_cm_128_hmac_sha1_32,
            rtcp |-> srtp_crypto_policy_set_aes_cm_128_hmac_sha1_32]
      [] cs = SRTP_AEAD_AES_128_GCM ->
           [ok |-> TRUE, rtp |-> srtp_crypto_policy_set_aes_gcm_128_16_auth,
            rtcp |-> srtp_crypto_policy_set_aes_gcm_128_16_auth]
      [] cs = SRTP_AEAD_AES_256_GCM ->
           [ok |-> TRUE, rtp |-> srtp_crypto_policy_set_aes_gcm_256_16_auth,
            rtcp |-> srtp_crypto_policy_set_aes_gcm_256_16_auth]
      [] OTHER -> [ok |-> FALSE, rtp |-> 0, rtcp |-> 0]

\* the srtp_policy_t filled in by SetKey for a suite; ok = FALSE: unsupported
MediaCrypto_Policy(cs) ==
    CASE cs = SRTP_AES128_CM_SHA1_80 ->
           [ok |-> TRUE, rtp |-> srtp_crypto_policy_set_aes_cm_128_hmac_sha1_80,
            rtcp |-> srtp_crypto_policy_set_aes_cm_128_hmac_sha1_80]
      [] cs = SRTP_AES128_CM_SHA1_32 ->
           [ok |-> TRUE, rtp |-> srtp_crypto_policy_set_aes_cm_128_hmac_sha1_32,
            rtcp |-> srtp_crypto_policy_set_aes_cm_128_hmac_sha1_80]
      [] cs = SRTP_AEAD_AES_128_GCM ->
           [ok |-> TRUE, rtp |-> srtp_crypto_policy_set_aes_gcm_128_16_auth,
            rtcp |-> srtp_crypto_policy_set_aes_gcm_128_16_auth]
      [] cs = SRTP_AEAD_AES_256_GCM ->
           [ok |-> TRUE, rtp |-> srtp_crypto_policy_set_aes_gcm_256_16_auth,
            rtcp |-> srtp_crypto_policy_set_aes_gcm_256_16_auth]
      [] OTHER -> [ok |-> FALSE, rtp |-> 0, rtcp |-> 0]

\* MediaCrypto::SetKey accepting a key buffer longer than key_len + salt_len
MediaCrypto_SetKey_LongKey(e, type, cs, key, len, create_ok) ==
    LET policy   == MediaCrypto_Policy(cs)
        expected == GetSrtpKeyAndSaltLengths(cs)
    IN  IF e.session_ # NullSession
        THEN [ret |-> FALSE, exit |-> "already_created", e |-> e]
        ELSE IF ~policy.ok
        THEN [ret |-> FALSE, exit |-> "unsupported_suite", e |-> e]
        ELSE IF ~expected.ok
        THEN [ret |-> FALSE, exit |-> "no_length_information", e |-> e]
        ELSE IF key = NULL \/ len < expected.key_len + expected.salt_len
        THEN [ret |-> FALSE, exit |-> "invalid_key", e |-> e]
        ELSE IF ~create_ok
        THEN [ret |-> FALSE, exit |-> "create_failed",
              e |-> [e EXCEPT !.session_ = NullSession]]
        ELSE [ret |-> TRUE, exit |-> "ok",
              e |-> [session_ |-> [alloc |-> TRUE, type |-> type,
                                   cs |-> cs, key |-> key],
                     rtp_auth_tag_len_ |-> policy.rtp,
                     rtcp_auth_tag_len_ |-> policy.rtcp]]

\* MediaCrypto::SetKey(type, cs, key, len); create_ok is the outcome of srtp_create
MediaCrypto_SetKey(e, type, cs, key, len, create_ok) ==
    LET policy   == MediaCrypto_Policy(cs)
        expected == GetSrtpKeyAndSaltLengths(cs)
    IN  IF e.session_ # NullSession
        THEN [ret |-> FALSE, exit |-> "already_created", e |-> e]
        ELSE IF ~policy.ok
        THEN [ret |-> FALSE, exit |-> "unsupported_suite", e |-> e]
        ELSE IF ~expected.ok
        THEN [ret |-> FALSE, exit |-> "no_length_information", e |-> e]
        ELSE IF key = NULL \/ len # expected.key_len + expected.salt_len
        THEN [ret |-> FALSE, exit |-> "invalid_key", e |-> e]
        ELSE IF ~create_ok
        THEN [ret |-> FALSE, exit |-> "create_failed",
              e |-> [e EXCEPT !.session_ = NullSession]]
        ELSE [ret |-> TRUE, exit |-> "ok",
              e |-> [session_ |-> [alloc |-> TRUE, type |-> type,
                                   cs |-> cs, key |-> key],
                     rtp_auth_tag_len_ |-> policy.rtp,
                     rtcp_auth_tag_len_ |-> policy.rtcp]]

\* MediaCrypto::ProtectRtp(p, in_len, max_len, &out_len)
MediaCrypto_ProtectRtp(e, p, in_len, max_len, verdict) ==
    IF e.session_ = NullSession
    THEN [ret |-> FALSE, exit |-> "no_session", p |-> p, out_len |-> 0,
          called |-> FALSE, status |-> "none"]
    ELSE LET need_len == in_len + e.rtp_auth_tag_len_
         IN  IF max_len < need_len
             THEN [ret |-> FALSE, exit |-> "buffer_too_small", p |-> p,
                   out_len |-> 0, called |-> FALSE, status |-> "none"]
             ELSE LET r == srtp_protect(e.session_, p, in_len, verdict)
                  IN  IF r.status # "ok"
                      THEN [ret |-> FALSE, exit |-> "protect_failed",
                            p |-> r.p, out_len |-> r.len, called |-> TRUE,
                            status |-> r.status]
                      ELSE [ret |-> TRUE, exit |-> "ok", p |-> r.p,
                            out_len |-> r.len, called |-> TRUE,
                            status |-> r.status]

\* MediaCrypto::UnprotectRtp(p, in_len, &out_len): a replay failure is only
\* logged and falls through to "return true"
MediaCrypto_UnprotectRtp(e, p, in_len, verdict) ==
    IF e.session_ = NullSession
    THEN [ret |-> FALSE, exit |-> "no_session", p |-> p, out_len |-> 0,
          called |-> FALSE, status |-> "none"]
    ELSE LET r == srtp_unprotect(e.session_, p, in_len, verdict)
         IN  IF r.status = "replay_fail"
             THEN [ret |-> TRUE, exit |-> "replay_failed", p |-> r.p,
                   out_len |-> r.len, called |-> TRUE, status |-> r.status]
             ELSE IF r.status # "ok"
             THEN [ret |-> FALSE, exit |-> "unprotect_failed", p |-> r.p,
                   out_len |-> r.len, called |-> TRUE, status |-> r.status]
             ELSE [ret |-> TRUE, exit |-> "ok", p |-> r.p,
                   out_len |-> r.len, called |-> TRUE, status |-> r.status]

\* MediaCrypto::GetEncryptionOverhead()
MediaCrypto_GetEncryptionOverhead(e) ==
    IF e.session_ = NullSession THEN 0
    ELSE MediaCrypto_ohb_size + e.rtp_auth_tag_len_

(***************************************************************************)
(* Encrypt / Decrypt                                                       *)
(***************************************************************************)
\* result of an Encrypt that returns before the scratch buffer is built
EncryptRejected(exit, packet) ==
    [ret |-> FALSE, exit |-> exit, packet |-> packet, inner |-> <<>>,
     in_len |-> 0, max_len |-> 0, called |-> FALSE, status |-> "none",
     mallocs |-> 0, frees |-> 0]

\* result of a Decrypt that returns before the scratch buffer is built
DecryptRejected(exit, payload) ==
    [ret |-> FALSE, exit |-> exit, payload |-> payload,
     payload_length |-> Len(payload), in_len |-> 0, called |-> FALSE,
     status |-> "none", mallocs |-> 0, frees |-> 0]

\* DoublePERC::Encrypt copying the OHB from packet->data() instead of
\* packet->data() + 1
DoublePERC_Encrypt_HeaderFromByte0(e, packet, verdict) ==
    LET size == DoublePERC_ohb_size + Len(packet.payload) + e.rtp_auth_tag_len_
    IN  IF size > packet.max
        THEN EncryptRejected("exceeds_max", packet)
        ELSE
        LET data   == Packet_data(packet)
            inner  == <<128>> \o SubSeq(data, 1, DoublePERC_ohb_size)
                              \o packet.payload
            in_len == 1 + DoublePERC_ohb_size + Len(packet.payload)
            pr     == DoublePERC_ProtectRtp(e, inner, in_len, size, verdict)
            alloc  == AllocatePayload(packet, pr.out_len - 1)
            copied == [alloc.packet EXCEPT !.payload =
                         Memcpy(alloc.packet.payload, pr.p, 1, pr.out_len - 1)]
            common == [inner |-> inner, in_len |-> in_len, max_len |-> size,
                       called |-> pr.called, status |-> pr.status,
                       mallocs |-> 1, frees |-> 1]
        IN  IF ~pr.ret
            THEN [ret |-> FALSE, exit |-> pr.exit, packet |-> packet] @@ common
            ELSE IF alloc.buffer
            THEN [ret |-> TRUE, exit |-> "ok",
                  packet |-> SetPayloadSize(copied,
                                pr.out_len - DoublePERC_ohb_size)] @@ common
            ELSE [ret |-> FALSE, exit |-> "allocate_failed",
                  packet |-> alloc.packet] @@ common

\* DoublePERC::Encrypt allocating the new payload before ProtectRtp has succeeded
DoublePERC_Encrypt_AllocateFirst(e, packet, verdict) ==
    LET size == DoublePERC_ohb_size + Len(packet.payload) + e.rtp_auth_tag_len_
    IN  IF size > packet.max
        THEN EncryptRejected("exceeds_max", packet)
        ELSE
        LET data   == Packet_data(packet)
            inner  == <<128>> \o SubSeq(data, 2, 1 + DoublePERC_ohb_size)
                              \o packet.payload
            in_len == 1 + DoublePERC_ohb_size + Len(packet.payload)
            pr     == DoublePERC_ProtectRtp(e, inner, in_len, size, verdict)
            alloc  == AllocatePayload(packet, pr.out_len - 1)
            copied == [alloc.packet EXCEPT !.payload =
                         Memcpy(alloc.packet.payload, pr.p, 1, pr.out_len - 1)]
            common == [inner |-> inner, in_len |-> in_len, max_len |-> size,
                       called |-> pr.called, status |-> pr.status,
                       mallocs |-> 1, frees |-> 1]
        IN  IF ~pr.ret
            THEN [ret |-> FALSE, exit |-> pr.exit,
                  packet |-> AllocatePayload(packet, size).packet] @@ common
            ELSE IF alloc.buffer
            THEN [ret |-> TRUE, exit |-> "ok",
                  packet |-> SetPayloadSize(copied,
                                pr.out_len - DoublePERC_ohb_size)] @@ common
            ELSE [ret |-> FALSE, exit |-> "allocate_failed",
                  packet |-> alloc.packet] @@ common

\* DoublePERC::Encrypt(packet)
DoublePERC_Encrypt(e, packet, verdict) ==
    LET size == DoublePERC_ohb_size + Len(packet.payload) + e.rtp_auth_tag_len_
    IN  IF size > packet.max
        THEN EncryptRejected("exceeds_max", packet)
        ELSE
        LET data   == Packet_data(packet)
            inner  == <<128>> \o SubSeq(data, 2, 1 + DoublePERC_ohb_size)
                              \o packet.payload
            in_len == 1 + DoublePERC_ohb_size + Len(packet.payload)
            pr     == DoublePERC_ProtectRtp(e, inner, in_len, size, verdict)
            alloc  == AllocatePayload(packet, pr.out_len - 1)
            copied == [alloc.packet EXCEPT !.payload =
                         Memcpy(alloc.packet.payload, pr.p, 1, pr.out_len - 1)]
            common == [inner |-> inner, in_len |-> in_len, max_len |-> size,
                       called |-> pr.called, status |-> pr.status,
                       mallocs |-> 1, frees |-> 1]
        IN  IF ~pr.ret
            THEN [ret |-> FALSE, exit |-> pr.exit, packet |-> packet] @@ common
            ELSE IF alloc.buffer
            THEN [ret |-> TRUE, exit |-> "ok",
                  packet |-> SetPayloadSize(copied,
                                pr.out_len - DoublePERC_ohb_size)] @@ common
            ELSE [ret |-> FALSE, exit |-> "allocate_failed",
                  packet |-> alloc.packet] @@ common

\* DoublePERC::Decrypt storing the new *payload_length before testing the result
DoublePERC_Decrypt_LengthOnFailure(e, payload, verdict) ==
    LET payload_length == Len(payload)
    IN  IF payload_length < DoublePERC_ohb_size + e.rtp_auth_tag_len_
        THEN DecryptRejected("too_small", payload)
        ELSE
        LET inner  == <<128>> \o payload
            ur     == DoublePERC_UnprotectRtp(e, inner, 1 + payload_length, verdict)
            newlen == ur.out_len - DoublePERC_ohb_size
            common == [in_len |-> 1 + payload_length, called |-> ur.called,
                       status |-> ur.status, mallocs |-> 1, frees |-> 1]
        IN  IF ur.ret
            THEN [ret |-> TRUE, exit |-> ur.exit,
                  payload |-> Memcpy(payload, ur.p, DoublePERC_ohb_size, newlen),
                  payload_length |-> newlen] @@ common
            ELSE [ret |-> FALSE, exit |-> ur.exit, payload |-> payload,
                  payload_length |-> newlen] @@ common

\* DoublePERC::Decrypt returning from the failure branch without free(inner)
DoublePERC_Decrypt_LeakOnFailure(e, payload, verdict) ==
    LET payload_length == Len(payload)
    IN  IF payload_length < DoublePERC_ohb_size + e.rtp_auth_tag_len_
        THEN DecryptRejected("too_small", payload)
        ELSE
        LET inner  == <<128>> \o payload
            ur     == DoublePERC_UnprotectRtp(e, inner, 1 + payload_length, verdict)
            newlen == ur.out_len - DoublePERC_ohb_size
            common == [in_len |-> 1 + payload_length, called |-> ur.called,
                       status |-> ur.status, mallocs |-> 1]
        IN  IF ur.ret
            THEN [ret |-> TRUE, exit |-> ur.exit,
                  payload |-> Memcpy(payload, ur.p, DoublePERC_ohb_size, newlen),
                  payload_length |-> newlen, frees |-> 1] @@ common
            ELSE [ret |-> FALSE, exit |-> ur.exit, payload |-> payload,
                  payload_length |-> payload_length, frees |-> 0] @@ common

\* DoublePERC::Decrypt(payload, &payload_length); the caller's buffer holds
\* *payload_length bytes
DoublePERC_Decrypt(e, payload, verdict) ==
    LET payload_length == Len(payload)
    IN  IF payload_length < DoublePERC_ohb_size + e.rtp_auth_tag_len_
        THEN DecryptRejected("too_small", payload)
        ELSE
        LET inner  == <<128>> \o payload
            ur     == DoublePERC_UnprotectRtp(e, inner, 1 + payload_length, verdict)
            newlen == ur.out_len - DoublePERC_ohb_size
            common == [in_len |-> 1 + payload_length, called |-> ur.called,
                       status |-> ur.status, mallocs |-> 1, frees |-> 1]
        IN  IF ur.ret
            THEN [ret |-> TRUE, exit |-> ur.exit,
                  payload |-> Memcpy(payload, ur.p, DoublePERC_ohb_size, newlen),
                  payload_length |-> newlen] @@ common
            ELSE [ret |-> FALSE, exit |-> ur.exit, payload |-> payload,
                  payload_length |-> payload_length] @@ common

\* MediaCrypto::Encrypt rejecting a packet that exactly fills MaxPayloadSize
MediaCrypto_Encrypt_StrictMax(e, packet, verdict) ==
    IF e.session_ = NullSession
    THEN EncryptRejected("no_session", packet)
    ELSE
    LET encrypted_payload_size ==
            MediaCrypto_ohb_size + Len(packet.payload) + e.rtp_auth_tag_len_
    IN  IF encrypted_payload_size >= packet.max
        THEN EncryptRejected("exceeds_max", packet)
        ELSE
        LET size   == encrypted_payload_size + 1
            mark   == packet.marker
            pt     == packet.pt
            seq    == packet.seq
            ts     == packet.ts
            ssrc   == packet.ssrc
            inner  == << 128,
                         Byte(IF mark THEN 128 + pt ELSE pt),
                         Byte(Shr(seq, 8)), Byte(seq),
                         Byte(Shr(ts, 24)), Byte(Shr(ts, 16)),
                         Byte(Shr(ts, 8)), Byte(ts),
                         Byte(Shr(ssrc, 24)), Byte(Shr(ssrc, 16)),
                         Byte(Shr(ssrc, 8)), Byte(ssrc) >>
                      \o packet.payload
            in_len == 1 + MediaCrypto_ohb_size + Len(packet.payload)
            pr     == MediaCrypto_ProtectRtp(e, inner, in_len, size, verdict)
            alloc  == AllocatePayload(packet, pr.out_len - 1)
            copied == [alloc.packet EXCEPT !.payload =
                         Memcpy(alloc.packet.payload, pr.p, 1, pr.out_len - 1)]
            common == [inner |-> inner, in_len |-> in_len, max_len |-> size,
                       called |-> pr.called, status |-> pr.status,
                       mallocs |-> 1, frees |-> 1]
        IN  IF ~pr.ret
            THEN [ret |-> FALSE, exit |-> pr.exit, packet |-> packet] @@ common
            ELSE IF alloc.buffer
            THEN [ret |-> TRUE, exit |-> "ok",
                  packet |-> SetPayloadSize(copied, pr.out_len - 1)] @@ common
            ELSE [ret |-> FALSE, exit |-> "allocate_failed",
                  packet |-> alloc.packet] @@ common

\* MediaCrypto::Encrypt building the scratch buffer before it compares the
\* encrypted size with MaxPayloadSize
MediaCrypto_Encrypt_BuildFirst(e, packet, verdict) ==
    IF e.session_ = NullSession
    THEN EncryptRejected("no_session", packet)
    ELSE
    LET encrypted_payload_size ==
            MediaCrypto_ohb_size + Len(packet.payload) + e.rtp_auth_tag_len_
        size   == encrypted_payload_size + 1
        inner  == <<128>> \o SubSeq(Packet_data(packet), 2, 1 + MediaCrypto_ohb_size)
                          \o packet.payload
        in_len == 1 + MediaCrypto_ohb_size + Len(packet.payload)
    IN  IF encrypted_payload_size > packet.max
        THEN [ret |-> FALSE, exit |-> "exceeds_max", packet |-> packet,
              inner |-> inner, in_len |-> in_len, max_len |-> size,
              called |-> FALSE, status |-> "none", mallocs |-> 1, frees |-> 1]
        ELSE
        LET pr     == MediaCrypto_ProtectRtp(e, inner, in_len, size, verdict)
            alloc  == AllocatePayload(packet, pr.out_len - 1)
            copied == [alloc.packet EXCEPT !.payload =
                         Memcpy(alloc.packet.payload, pr.p, 1, pr.out_len - 1)]
            common == [inner |-> inner, in_len |-> in_len, max_len |-> size,
                       called |-> pr.called, status |-> pr.status,
                       mallocs |-> 1, frees |-> 1]
        IN  IF ~pr.ret
            THEN [ret |-> FALSE, exit |-> pr.exit, packet |-> packet] @@ common
            ELSE IF alloc.buffer
            THEN [ret |-> TRUE, exit |-> "ok",
                  packet |-> SetPayloadSize(copied, pr.out_len - 1)] @@ common
            ELSE [ret |-> FALSE, exit |-> "allocate_failed",
                  packet |-> alloc.packet] @@ common

\* MediaCrypto::Encrypt(packet)
MediaCrypto_Encrypt(e, packet, verdict) ==
    IF e.session_ = NullSession
    THEN EncryptRejected("no_session", packet)
    ELSE
    LET encrypted_payload_size ==
            MediaCrypto_ohb_size + Len(packet.payload) + e.rtp_auth_tag_len_
    IN  IF encrypted_payload_size > packet.max
        THEN EncryptRejected("exceeds_max", packet)
        ELSE
        LET size   == encrypted_payload_size + 1
            mark   == packet.marker
            pt     == packet.pt
            seq    == packet.seq
            ts     == packet.ts
            ssrc   == packet.ssrc
            inner  == << 128,
                         Byte(IF mark THEN 128 + pt ELSE pt),
                         Byte(Shr(seq, 8)), Byte(seq),
                         Byte(Shr(ts, 24)), Byte(Shr(ts, 16)),
                         Byte(Shr(ts, 8)), Byte(ts),
                         Byte(Shr(ssrc, 24)), Byte(Shr(ssrc, 16)),
                         Byte(Shr(ssrc, 8)), Byte(ssrc) >>
                      \o packet.payload
            in_len == 1 + MediaCrypto_ohb_size + Len(packet.payload)
            pr     == MediaCrypto_ProtectRtp(e, inner, in_len, size, verdict)
            alloc  == AllocatePayload(packet, pr.out_len - 1)
            copied == [alloc.packet EXCEPT !.payload =
                         Memcpy(alloc.packet.payload, pr.p, 1, pr.out_len - 1)]
            common == [inner |-> inner, in_len |-> in_len, max_len |-> size,
                       called |-> pr.called, status |-> pr.status,
                       mallocs |-> 1, frees |-> 1]
        IN  IF ~pr.ret
            THEN [ret |-> FALSE, exit |-> pr.exit, packet |-> packet] @@ common
            ELSE IF alloc.buffer
            THEN [ret |-> TRUE, exit |-> "ok",
                  packet |-> SetPayloadSize(copied, pr.out_len - 1)] @@ common
            ELSE [ret |-> FALSE, exit |-> "allocate_failed",
                  packet |-> alloc.packet] @@ common

\* MediaCrypto::Decrypt with the OHB-stripping arithmetic of the short form
MediaCrypto_Decrypt_StripShort(e, payload, verdict) ==
    LET payload_length == Len(payload)
    IN  IF e.session_ = NullSession
        THEN DecryptRejected("no_session", payload)
        ELSE IF payload_length < MediaCrypto_ohb_size + e.rtp_auth_tag_len_
        THEN DecryptRejected("too_small", payload)
        ELSE
        LET inner  == <<128>> \o payload
            ur     == MediaCrypto_UnprotectRtp(e, inner, 1 + payload_length, verdict)
            newlen == ur.out_len - MediaCrypto_ohb_size
            common == [in_len |-> 1 + payload_length, called |-> ur.called,
                       status |-> ur.status, mallocs |-> 1, frees |-> 1]
        IN  IF ur.ret
            THEN [ret |-> TRUE, exit |-> ur.exit,
                  payload |-> Memcpy(payload, ur.p, MediaCrypto_ohb_size, newlen),
                  payload_length |-> newlen] @@ common
            ELSE [ret |-> FALSE, exit |-> ur.exit, payload |-> payload,
                  payload_length |-> payload_length] @@ common

\* MediaCrypto::Decrypt rejecting a payload of exactly the minimum length
MediaCrypto_Decrypt_StrictMinimum(e, payload, verdict) ==
    LET payload_length == Len(payload)
    IN  IF e.session_ = NullSession
        THEN DecryptRejected("no_session", payload)
        ELSE IF payload_length <= MediaCrypto_ohb_size + e.rtp_auth_tag_len_
        THEN DecryptRejected("too_small", payload)
        ELSE
        LET inner  == <<128>> \o payload
            ur     == MediaCrypto_UnprotectRtp(e, inner, 1 + payload_length, verdict)
            newlen == ur.out_len - MediaCrypto_ohb_size - 1
            common == [in_len |-> 1 + payload_length, called |-> ur.called,
                       status |-> ur.status, mallocs |-> 1, frees |-> 1]
        IN  IF ur.ret
            THEN [ret |-> TRUE, exit |-> ur.exit,
                  payload |-> Memcpy(payload, ur.p, MediaCrypto_ohb_size + 1, newlen),
                  payload_length |-> newlen] @@ common
            ELSE [ret |-> FALSE, exit |-> ur.exit, payload |-> payload,
                  payload_length |-> payload_length] @@ common

\* MediaCrypto::Decrypt(payload, &payload_length)
MediaCrypto_Decrypt(e, payload, verdict) ==
    LET payload_length == Len(payload)
    IN  IF e.session_ = NullSession
        THEN DecryptRejected("no_session", payload)
        ELSE IF payload_length < MediaCrypto_ohb_size + e.rtp_auth_tag_len_
        THEN DecryptRejected("too_small", payload)
        ELSE
        LET inner  == <<128>> \o payload
            ur     == MediaCrypto_UnprotectRtp(e, inner, 1 + payload_length, verdict)
            newlen == ur.out_len - MediaCrypto_ohb_size - 1
            common == [in_len |-> 1 + payload_length, called |-> ur.called,
                       status |-> ur.status, mallocs |-> 1, frees |-> 1]
        IN  IF ur.ret
            THEN [ret |-> TRUE, exit |-> ur.exit,
                  payload |-> Memcpy(payload, ur.p, MediaCrypto_ohb_size + 1, newlen),
                  payload_length |-> newlen] @@ common
            ELSE [ret |-> FALSE, exit |-> ur.exit, payload |-> payload,
                  payload_length |-> payload_length] @@ common

\* DoublePERC::SetOutboundKey(cs, key, len)
DoublePERC_SetOutboundKey(e, cs, key, len, create_ok) ==
    DoublePERC_SetKey(e, ssrc_any_inbound, cs, key, len, create_ok)

\* DoublePERC::SetInboundKey(cs, key, len)
DoublePERC_SetInboundKey(e, cs, key, len, create_ok) ==
    DoublePERC_SetKey(e, ssrc_any_outbound, cs, key, len, create_ok)

\* MediaCrypto::SetOutboundKey(key): key.type, key.buffer.data(), key.buffer.size()
MediaCrypto_SetOutboundKey(e, cs, key, len, create_ok) ==
    MediaCrypto_SetKey(e, ssrc_any_outbound, cs, key, len, create_ok)

\* MediaCrypto::SetInboundKey(key)
MediaCrypto_SetInboundKey(e, cs, key, len, create_ok) ==
    MediaCrypto_SetKey(e, ssrc_any_inbound, cs, key, len, create_ok)

\* DoublePERC::~DoublePERC() calling srtp_dealloc without the test of session_
DoublePERC_Destroy_NoTest(e) ==
    [set_user_data |-> TRUE, dealloc |-> TRUE, handle |-> e.session_]

\* DoublePERC::~DoublePERC(): what the destructor does with session_
DoublePERC_Destroy(e) ==
    IF e.session_ # NullSession
    THEN [set_user_data |-> TRUE, dealloc |-> TRUE, handle |-> e.session_]
    ELSE [set_user_data |-> FALSE, dealloc |-> FALSE, handle |-> NullSession]

\* MediaCrypto::~MediaCrypto()
MediaCrypto_Destroy(e) ==
    IF e.session_ # NullSession
    THEN [set_user_data |-> FALSE, dealloc |-> TRUE, handle |-> e.session_]
    ELSE [set_user_data |-> FALSE, dealloc |-> FALSE, handle |-> NullSession]

(***************************************************************************)
(* RTP header extension codecs (rtp_header_extensions.cc).                 *)
(* An rtc::ArrayView is [mem, size]: the memory at data.data() and          *)
(* data.size(); index i of the view is mem[i + 1], also for i >= size.      *)
(* X_Parse(data, out) takes the previous contents of the out-parameter and  *)
(* returns [ret, out, reads]: the return value, the out-parameter after     *)
(* the call and the set of indices of data it read.  X_Write(data, v)       *)
(* takes the memory at the destination pointer and returns [ret, data,      *)
(* written].                                                                *)
(***************************************************************************)
\* data[i]
At(data, i) == data.mem[i + 1]

\* ByteReader<T, B>::ReadBigEndian(data.data() + off) for an unsigned T
RECURSIVE ReadBigEndian(_, _, _)
ReadBigEndian(data, off, B) ==
    IF B = 0 THEN 0
    ELSE At(data, off + B - 1) + 256 * ReadBigEndian(data, off, B - 1)

\* ByteReader<T, B>::ReadBigEndian for a signed T: the B bytes sign-extended
ReadBigEndianSigned(data, off, B) ==
    LET u == ReadBigEndian(data, off, B)
    IN  IF u >= 2 ^ (8 * B - 1) THEN u - 2 ^ (8 * B) ELSE u

\* ByteWriter<T, B>::WriteBigEndian(data + off, val): the low B bytes of val
WriteBigEndian(data, off, B, val) ==
    [i \in 1..Len(data) |->
        IF i - 1 >= off /\ i - 1 < off + B
        THEN Byte(Shr(val % (2 ^ (8 * B)), 8 * (B - 1 - (i - 1 - off))))
        ELSE data[i]]

\* memcpy(data, src, n) into the destination memory
WriteBytes(data, src, n) ==
    [i \in 1..Len(data) |-> IF i <= n THEN src[i] ELSE data[i]]

\* the result of a Parse that returns false without storing anything
ParseRejected(out, reads) == [ret |-> FALSE, out |-> out, reads |-> reads]

AbsoluteSendTime_kValueSizeBytes == 3

\* AbsoluteSendTime::Parse(data, &time_24bits)
AbsoluteSendTime_Parse(data, out) ==
    IF data.size # 3
    THEN ParseRejected(out, {})
    ELSE [ret |-> TRUE,
          out |-> [time_24bits |-> ReadBigEndian(data, 0, 3)],
          reads |-> 0..2]

\* AbsoluteSendTime::Write(data, time_24bits)
AbsoluteSendTime_Write(data, v) ==
    [ret |-> TRUE, data |-> WriteBigEndian(data, 0, 3, v.time_24bits),
     written |-> 0..2]

AudioLevel_kValueSizeBytes == 1

\* AudioLevel::Parse(data, &voice_activity, &audio_level)
AudioLevel_Parse(data, out) ==
    IF data.size # 1
    THEN ParseRejected(out, {})
    ELSE [ret |-> TRUE,
          out |-> [voice_activity |-> At(data, 0) >= 128,
                   audio_level |-> At(data, 0) % 128],
          reads |-> {0}]

\* AudioLevel::Write storing the level without the voice activity bit
AudioLevel_Write_NoVoiceBit(data, v) ==
    [ret |-> TRUE, data |-> WriteBigEndian(data, 0, 1, v.audio_level),
     written |-> {0}]

\* AudioLevel::Write(data, voice_activity, audio_level)
AudioLevel_Write(data, v) ==
    [ret |-> TRUE,
     data |-> WriteBigEndian(data, 0, 1,
                 (IF v.voice_activity THEN 128 ELSE 0) + v.audio_level),
     written |-> {0}]

TransmissionOffset_kValueSizeBytes == 3

\* TransmissionOffset::Parse(data, &rtp_time)
TransmissionOffset_Parse(data, out) ==
    IF data.size # 3
    THEN ParseRejected(out, {})
    ELSE [ret |-> TRUE,
          out |-> [rtp_time |-> ReadBigEndianSigned(data, 0, 3)],
          reads |-> 0..2]

\* TransmissionOffset::Write(data, rtp_time)
TransmissionOffset_Write(data, v) ==
    [ret |-> TRUE, data |-> WriteBigEndian(data, 0, 3, v.rtp_time),
     written |-> 0..2]

TransportSequenceNumber_kValueSizeBytes == 2

\* TransportSequenceNumber::Parse(data, &value)
TransportSequenceNumber_Parse(data, out) ==
    IF data.size # 2
    THEN ParseRejected(out, {})
    ELSE [ret |-> TRUE, out |-> [value |-> ReadBigEndian(data, 0, 2)],
          reads |-> 0..1]

\* TransportSequenceNumber::Write(data, value)
TransportSequenceNumber_Write(data, v) ==
    [ret |-> TRUE, data |-> WriteBigEndian(data, 0, 2, v.value),
     written |-> 0..1]

VideoOrientation_kValueSizeBytes == 1

\* ConvertCVOByteToVideoRotation: the two R bits select 0, 90, 180 or 270
ConvertCVOByteToVideoRotation(cvo_byte) == 90 * (cvo_byte % 4)

\* ConvertVideoRotationToCVOByte
ConvertVideoRotationToCVOByte(rotation) == rotation \div 90

\* VideoOrientation::Parse(data, VideoRotation* rotation)
VideoOrientation_Parse(data, out) ==
    IF data.size # 1
    THEN ParseRejected(out, {})
    ELSE [ret |-> TRUE,
          out |-> [rotation |-> ConvertCVOByteToVideoRotation(At(data, 0))],
          reads |-> {0}]

\* VideoOrientation::Write(data, VideoRotation rotation)
VideoOrientation_Write(data, v) ==
    [ret |-> TRUE,
     data |-> WriteBigEndian(data, 0, 1, ConvertVideoRotationToCVOByte(v.rotation)),
     written |-> {0}]

\* VideoOrientation::Parse(data, uint8_t* value)
VideoOrientation_ParseByte(data, out) ==
    IF data.size # 1
    THEN ParseRejected(out, {})
    ELSE [ret |-> TRUE, out |-> [value |-> At(data, 0)], reads |-> {0}]

\* VideoOrientation::Write(data, uint8_t value)
VideoOrientation_WriteByte(data, v) ==
    [ret |-> TRUE, data |-> WriteBigEndian(data, 0, 1, v.value),
     written |-> {0}]

\* a | b on unsigned integers
RECURSIVE BitOr(_, _)
BitOr(a, b) ==
    IF a = 0 THEN b
    ELSE IF b = 0 THEN a
    ELSE (IF a % 2 = 1 \/ b % 2 = 1 THEN 1 ELSE 0)
         + 2 * BitOr(a \div 2, b \div 2)

\* (x & mask) != 0 for a mask of one bit
BitSet(x, mask) == (x \div mask) % 2 = 1

PlayoutDelayLimits_kValueSizeBytes == 3

\* PlayoutDelayLimits::kGranularityMs
PlayoutDelayLimits_kGranularityMs == 10

\* PlayoutDelayLimits::Parse(data, &playout_delay)
PlayoutDelayLimits_Parse(data, out) ==
    IF data.size # 3
    THEN ParseRejected(out, {})
    ELSE LET raw     == ReadBigEndian(data, 0, 3)
             min_raw == Shr(raw, 12) % 65536
             max_raw == raw % 4096
         IN  IF min_raw > max_raw
             THEN ParseRejected(out, 0..2)
             ELSE [ret |-> TRUE,
                   out |-> [min_ms |-> min_raw * PlayoutDelayLimits_kGranularityMs,
                            max_ms |-> max_raw * PlayoutDelayLimits_kGranularityMs],
                   reads |-> 0..2]

\* PlayoutDelayLimits::Write(data, playout_delay)
PlayoutDelayLimits_Write(data, v) ==
    LET min_delay == v.min_ms \div PlayoutDelayLimits_kGranularityMs
        max_delay == v.max_ms \div PlayoutDelayLimits_kGranularityMs
    IN  [ret |-> TRUE,
         data |-> WriteBigEndian(data, 0, 3, BitOr(min_delay * 4096, max_delay)),
         written |-> 0..2]

VideoContentTypeExtension_kValueSizeBytes == 1

\* VideoContentType::TOTAL_CONTENT_TYPES (UNSPECIFIED = 0, SCREENSHARE = 1)
TOTAL_CONTENT_TYPES == 2

\* VideoContentTypeExtension::Parse(data, &content_type)
VideoContentTypeExtension_Parse(data, out) ==
    IF data.size = 1 /\ At(data, 0) < TOTAL_CONTENT_TYPES
    THEN [ret |-> TRUE, out |-> [content_type |-> At(data, 0)], reads |-> {0}]
    ELSE ParseRejected(out, IF data.size = 1 THEN {0} ELSE {})

\* VideoContentTypeExtension::Write(data, content_type)
VideoContentTypeExtension_Write(data, v) ==
    [ret |-> TRUE, data |-> WriteBigEndian(data, 0, 1, v.content_type),
     written |-> {0}]

VideoTimingExtension_kValueSizeBytes == 12

\* VideoSendTiming::k...DeltaIdx: the position of each delta on the wire
VideoSendTiming_kEncodeStartDeltaIdx == 0

VideoSendTiming_kEncodeFinishDeltaIdx == 1

VideoSendTiming_kPacketizationFinishDeltaIdx == 2

VideoSendTiming_kPacerExitDeltaIdx == 3

VideoSendTiming_kNetworkTimestampDeltaIdx == 4

VideoSendTiming_kNetwork2TimestampDeltaIdx == 5

\* VideoTimingExtension::Parse(data, &timing)
VideoTimingExtension_Parse(data, out) ==
    IF data.size # VideoTimingExtension_kValueSizeBytes
    THEN ParseRejected(out, {})
    ELSE [ret |-> TRUE,
          out |-> [encode_start_delta_ms |-> ReadBigEndian(data, 0, 2),
                   encode_finish_delta_ms |->
                     ReadBigEndian(data, 2 * VideoSendTiming_kEncodeFinishDeltaIdx, 2),
                   packetization_finish_delta_ms |->
                     ReadBigEndian(data, 2 * VideoSendTiming_kPacketizationFinishDeltaIdx, 2),
                   pacer_exit_delta_ms |->
                     ReadBigEndian(data, 2 * VideoSendTiming_kPacerExitDeltaIdx, 2),
                   network_timstamp_delta_ms |->
                     ReadBigEndian(data, 2 * VideoSendTiming_kNetworkTimestampDeltaIdx, 2),
                   network2_timstamp_delta_ms |->
                     ReadBigEndian(data, 2 * VideoSendTiming_kNetwork2TimestampDeltaIdx, 2),
                   is_timing_frame |-> TRUE],
          reads |-> 0..11]

\* VideoTimingExtension::Write storing the two network deltas of the timing
VideoTimingExtension_Write_NetworkDeltas(data, v) ==
    LET d1 == WriteBigEndian(data, 0, 2, v.encode_start_delta_ms)
        d2 == WriteBigEndian(d1, 2 * VideoSendTiming_kEncodeFinishDeltaIdx, 2,
                             v.encode_finish_delta_ms)
        d3 == WriteBigEndian(d2, 2 * VideoSendTiming_kPacketizationFinishDeltaIdx, 2,
                             v.packetization_finish_delta_ms)
        d4 == WriteBigEndian(d3, 2 * VideoSendTiming_kPacerExitDeltaIdx, 2,
                             v.pacer_exit_delta_ms)
        d5 == WriteBigEndian(d4, 2 * VideoSendTiming_kNetworkTimestampDeltaIdx, 2,
                             v.network_timstamp_delta_ms)
        d6 == WriteBigEndian(d5, 2 * VideoSendTiming_kNetwork2TimestampDeltaIdx, 2,
                             v.network2_timstamp_delta_ms)
    IN  [ret |-> TRUE, data |-> d6, written |-> 0..11]

\* VideoTimingExtension::Write(data, timing)
VideoTimingExtension_Write(data, v) ==
    LET d1 == WriteBigEndian(data, 0, 2, v.encode_start_delta_ms)
        d2 == WriteBigEndian(d1, 2 * VideoSendTiming_kEncodeFinishDeltaIdx, 2,
                             v.encode_finish_delta_ms)
        d3 == WriteBigEndian(d2, 2 * VideoSendTiming_kPacketizationFinishDeltaIdx, 2,
                             v.packetization_finish_delta_ms)
        d4 == WriteBigEndian(d3, 2 * VideoSendTiming_kPacerExitDeltaIdx, 2,
                             v.pacer_exit_delta_ms)
        d5 == WriteBigEndian(d4, 2 * VideoSendTiming_kNetworkTimestampDeltaIdx, 2, 0)
        d6 == WriteBigEndian(d5, 2 * VideoSendTiming_kNetwork2TimestampDeltaIdx, 2, 0)
    IN  [ret |-> TRUE, data |-> d6, written |-> 0..11]

\* VideoTimingExtension::Write(data, time_delta_ms, idx)
VideoTimingExtension_WriteIdx(data, time_delta_ms, idx) ==
    [ret |-> TRUE, data |-> WriteBigEndian(data, 2 * idx, 2, time_delta_ms),
     written |-> {2 * idx, 2 * idx + 1}]

\* StringRtpHeaderExtension::kMaxSize
kMaxSize == 16

\* strnlen(str, n) from index i on: the number of bytes before the first 0
\* or n, and the indices it looked at
RECURSIVE Strnlen(_, _, _)
Strnlen(data, i, n) ==
    IF i >= n THEN [len |-> i, reads |-> 0..(i - 1)]
    ELSE IF At(data, i) = 0 THEN [len |-> i, reads |-> 0..i]
    ELSE Strnlen(data, i + 1, n)

\* RtpStreamId::Parse measuring the string with strlen: the scan stops at
\* the first 0 in memory, wherever the view ends
RtpStreamId_Parse_Strlen(data, out) ==
    IF data.size = 0 \/ At(data, 0) = 0
    THEN ParseRejected(out, IF data.size = 0 THEN {} ELSE {0})
    ELSE LET n == Strnlen(data, 0, Len(data.mem))
         IN  [ret |-> TRUE, out |-> [rsid |-> SubSeq(data.mem, 1, n.len)],
              reads |-> n.reads]

\* RtpStreamId::Parse(data, std::string* rsid)
RtpStreamId_Parse(data, out) ==
    IF data.size = 0 \/ At(data, 0) = 0
    THEN ParseRejected(out, IF data.size = 0 THEN {} ELSE {0})
    ELSE LET n == Strnlen(data, 0, data.size)
         IN  [ret |-> TRUE, out |-> [rsid |-> SubSeq(data.mem, 1, n.len)],
              reads |-> n.reads]

\* RtpStreamId::ValueSize(const std::string& rsid)
RtpStreamId_ValueSize(v) == Len(v.rsid)

\* RtpStreamId::Write(data, const std::string& rsid)
RtpStreamId_Write(data, v) ==
    [ret |-> TRUE, data |-> WriteBytes(data, v.rsid, Len(v.rsid)),
     written |-> 0..(Len(v.rsid) - 1)]

\* RepairedRtpStreamId::Parse(data, std::string* rsid)
RepairedRtpStreamId_Parse(data, out) == RtpStreamId_Parse(data, out)

\* RepairedRtpStreamId::ValueSize(const std::string& rsid)
RepairedRtpStreamId_ValueSize(v) == RtpStreamId_ValueSize(v)

\* RepairedRtpStreamId::Write(data, const std::string& rsid)
RepairedRtpStreamId_Write(data, v) == RtpStreamId_Write(data, v)

\* the "none" values of the layer indices
kNoTemporalIdx == 255

kNoSpatialIdx == 255

kNoTl0PicIdx == -1

\* FrameMarking::Parse taking every length but 1 for the scalable form
FrameMarking_Parse_AnyLongForm(data, out) ==
    IF data.size = 0
    THEN ParseRejected(out, {})
    ELSE LET flags == [out EXCEPT
                         !.start_of_frame = BitSet(At(data, 0), 128),
                         !.end_of_frame   = BitSet(At(data, 0), 64),
                         !.independent    = BitSet(At(data, 0), 32),
                         !.discardable    = BitSet(At(data, 0), 16)]
         IN  IF data.size = 1
             THEN [ret |-> TRUE,
                   out |-> [flags EXCEPT !.base_layer_sync = FALSE,
                                         !.temporal_layer_id = 0,
                                         !.layer_id = 0,
                                         !.tl0_pic_idx = 0],
                   reads |-> {0}]
             ELSE [ret |-> TRUE,
                   out |-> [flags EXCEPT
                              !.base_layer_sync = BitSet(At(data, 0), 8),
                              !.temporal_layer_id = At(data, 0) % 8,
                              !.layer_id = At(data, 1),
                              !.tl0_pic_idx = At(data, 2)],
                   reads |-> 0..2]

\* FrameMarking::Parse(data, &frame_marks): the four flags are stored before
\* the length is looked at
FrameMarking_Parse(data, out) ==
    IF data.size = 0
    THEN ParseRejected(out, {})
    ELSE LET flags == [out EXCEPT
                         !.start_of_frame = BitSet(At(data, 0), 128),
                         !.end_of_frame   = BitSet(At(data, 0), 64),
                         !.independent    = BitSet(At(data, 0), 32),
                         !.discardable    = BitSet(At(data, 0), 16)]
         IN  IF data.size = 1
             THEN [ret |-> TRUE,
                   out |-> [flags EXCEPT !.base_layer_sync = FALSE,
                                         !.temporal_layer_id = 0,
                                         !.layer_id = 0,
                                         !.tl0_pic_idx = 0],
                   reads |-> {0}]
             ELSE IF data.size = 3
             THEN [ret |-> TRUE,
                   out |-> [flags EXCEPT
                              !.base_layer_sync = BitSet(At(data, 0), 8),
                              !.temporal_layer_id = At(data, 0) % 8,
                              !.layer_id = At(data, 1),
                              !.tl0_pic_idx = At(data, 2)],
                   reads |-> 0..2]
             ELSE [ret |-> FALSE, out |-> flags, reads |-> {0}]

\* FrameMarking::IsScalable without the test of tl0_pic_idx
FrameMarking_IsScalable_NoTl0(frame_marks) ==
    \/ frame_marks.base_layer_sync
    \/ (frame_marks.temporal_layer_id # 0
          /\ frame_marks.temporal_layer_id # kNoTemporalIdx)
    \/ (frame_marks.layer_id # 0 /\ frame_marks.layer_id # kNoSpatialIdx)

\* FrameMarking::IsScalable(frame_marks)
FrameMarking_IsScalable(frame_marks) ==
    \/ frame_marks.base_layer_sync
    \/ (frame_marks.temporal_layer_id # 0
          /\ frame_marks.temporal_layer_id # kNoTemporalIdx)
    \/ (frame_marks.layer_id # 0 /\ frame_marks.layer_id # kNoSpatialIdx)
    \/ (frame_marks.tl0_pic_idx # 0 /\ frame_marks.tl0_pic_idx # kNoTl0PicIdx)

\* FrameMarking::ValueSize(frame_marks)
FrameMarking_ValueSize(frame_marks) ==
    IF FrameMarking_IsScalable(frame_marks) THEN 3 ELSE 1

\* FrameMarking::Write leaving the temporal layer id out of byte 0
FrameMarking_Write_NoTemporalId(data, v) ==
    LET b0 == (IF v.start_of_frame THEN 128 ELSE 0)
              + (IF v.end_of_frame THEN 64 ELSE 0)
              + (IF v.independent THEN 32 ELSE 0)
              + (IF v.discardable THEN 16 ELSE 0)
    IN  IF FrameMarking_IsScalable(v)
        THEN LET b0s == b0 + (IF v.base_layer_sync THEN 8 ELSE 0)
                 d0  == WriteBigEndian(data, 0, 1, b0s)
                 d1  == WriteBigEndian(d0, 1, 1, v.layer_id)
                 d2  == WriteBigEndian(d1, 2, 1, v.tl0_pic_idx)
             IN  [ret |-> TRUE, data |-> d2, written |-> 0..2]
        ELSE [ret |-> TRUE, data |-> WriteBigEndian(data, 0, 1, b0),
              written |-> {0}]

\* FrameMarking::Write(data, frame_marks)
FrameMarking_Write(data, v) ==
    LET b0 == (IF v.start_of_frame THEN 128 ELSE 0)
              + (IF v.end_of_frame THEN 64 ELSE 0)
              + (IF v.independent THEN 32 ELSE 0)
              + (IF v.discardable THEN 16 ELSE 0)
    IN  IF FrameMarking_IsScalable(v)
        THEN LET b0s == BitOr(b0 + (IF v.base_layer_sync THEN 8 ELSE 0),
                              v.temporal_layer_id % 8)
                 d0  == WriteBigEndian(data, 0, 1, b0s)
                 d1  == WriteBigEndian(d0, 1, 1, v.layer_id)
                 d2  == WriteBigEndian(d1, 2, 1, v.tl0_pic_idx)
             IN  [ret |-> TRUE, data |-> d2, written |-> 0..2]
        ELSE [ret |-> TRUE, data |-> WriteBigEndian(data, 0, 1, b0),
              written |-> {0}]

(***************************************************************************)
(* The codecs as one family: dispatch on the extension's name              *)
(***************************************************************************)
FixedSizeCodecs == {"AbsoluteSendTime", "AudioLevel", "TransmissionOffset",
                    "TransportSequenceNumber", "PlayoutDelayLimits",
                    "VideoContentTypeExtension", "VideoTimingExtension"}

Codecs == FixedSizeCodecs \cup {"VideoOrientation", "VideoOrientationByte",
                                "RtpStreamId", "RepairedRtpStreamId",
                                "FrameMarking"}

\* X::Parse(data, &out)
ParseOf(c, data, out) ==
    CASE c = "AbsoluteSendTime"          -> AbsoluteSendTime_Parse(data, out)
      [] c = "AudioLevel"                -> AudioLevel_Parse(data, out)
      [] c = "TransmissionOffset"        -> TransmissionOffset_Parse(data, out)
      [] c = "TransportSequenceNumber"   -> TransportSequenceNumber_Parse(data, out)
      [] c = "VideoOrientation"          -> VideoOrientation_Parse(data, out)
      [] c = "VideoOrientationByte"      -> VideoOrientation_ParseByte(data, out)
      [] c = "PlayoutDelayLimits"        -> PlayoutDelayLimits_Parse(data, out)
      [] c = "VideoContentTypeExtension" -> VideoContentTypeExtension_Parse(data, out)
      [] c = "VideoTimingExtension"      -> VideoTimingExtension_Parse(data, out)
      [] c = "RtpStreamId"               -> RtpStreamId_Parse(data, out)
      [] c = "RepairedRtpStreamId"       -> RepairedRtpStreamId_Parse(data, out)
      [] c = "FrameMarking"              -> FrameMarking_Parse(data, out)

\* X::Write(data, v)
WriteOf(c, data, v) ==
    CASE c = "AbsoluteSendTime"          -> AbsoluteSendTime_Write(data, v)
      [] c = "AudioLevel"                -> AudioLevel_Write(data, v)
      [] c = "TransmissionOffset"        -> TransmissionOffset_Write(data, v)
      [] c = "TransportSequenceNumber"   -> TransportSequenceNumber_Write(data, v)
      [] c = "VideoOrientation"          -> VideoOrientation_Write(data, v)
      [] c = "VideoOrientationByte"      -> VideoOrientation_WriteByte(data, v)
      [] c = "PlayoutDelayLimits"        -> PlayoutDelayLimits_Write(data, v)
      [] c = "VideoContentTypeExtension" -> VideoContentTypeExtension_Write(data, v)
      [] c = "VideoTimingExtension"      -> VideoTimingExtension_Write(data, v)
      [] c = "RtpStreamId"               -> RtpStreamId_Write(data, v)
      [] c = "RepairedRtpStreamId"       -> RepairedRtpStreamId_Write(data, v)
      [] c = "FrameMarking"              -> FrameMarking_Write(data, v)

\* X::kValueSizeBytes, or X::ValueSize(v) of the variable-size extensions
ValueSizeOf(c, v) ==
    CASE c = "AbsoluteSendTime"          -> AbsoluteSendTime_kValueSizeBytes
      [] c = "AudioLevel"                -> AudioLevel_kValueSizeBytes
      [] c = "TransmissionOffset"        -> TransmissionOffset_kValueSizeBytes
      [] c = "TransportSequenceNumber"   -> TransportSequenceNumber_kValueSizeBytes
      [] c = "VideoOrientation"          -> VideoOrientation_kValueSizeBytes
      [] c = "VideoOrientationByte"      -> VideoOrientation_kValueSizeBytes
      [] c = "PlayoutDelayLimits"        -> PlayoutDelayLimits_kValueSizeBytes
      [] c = "VideoContentTypeExtension" -> VideoContentTypeExtension_kValueSizeBytes
      [] c = "VideoTimingExtension"      -> VideoTimingExtension_kValueSizeBytes
      [] c = "RtpStreamId"               -> RtpStreamId_ValueSize(v)
      [] c = "RepairedRtpStreamId"       -> RepairedRtpStreamId_ValueSize(v)
      [] c = "FrameMarking"              -> FrameMarking_ValueSize(v)

(***************************************************************************)
(* Inputs of the codecs                                                    *)
(***************************************************************************)
\* the memory behind every view is one byte longer than the longest value
MemLen == kMaxSize + 1

\* the destination of a Write before the call: no byte of it is 0
DestMemory == [i \in 1..MemLen |-> 170]

\* 12-bit raw values of a playout delay limit
DelayRaws == {0, 1, 15, 16, 255, 256, 1638, 1639, 4094, 4095}

\* 16-bit deltas of a video timing
TimingDeltas == {0, 258, 65535}

\* the values handed to Write
CodecValues(c) ==
    CASE c = "AbsoluteSendTime" ->
           {[time_24bits |-> t] : t \in {0, 1, 255, 256, 65535, 65536, 1193046,
                                         8388607, 8388608, 16777215}}
      [] c = "AudioLevel" ->
           [voice_activity : BOOLEAN, audio_level : 0..127]
      [] c = "TransmissionOffset" ->
           {[rtp_time |-> t] : t \in {-8388608, -8388607, -1193046, -65537,
                                      -65536, -257, -256, -1, 0, 1, 255, 256,
                                      65535, 65536, 1193046, 8388607}}
      [] c = "TransportSequenceNumber" ->
           {[value |-> t] : t \in {0, 1, 255, 256, 257, 4660, 32768, 65535}}
      [] c = "VideoOrientation" ->
           {[rotation |-> t] : t \in {0, 90, 180, 270}}
      [] c = "VideoOrientationByte" ->
           {[value |-> t] : t \in {0, 1, 15, 255}}
      [] c = "PlayoutDelayLimits" ->
           {[min_ms |-> a * PlayoutDelayLimits_kGranularityMs,
             max_ms |-> b * PlayoutDelayLimits_kGranularityMs] :
               <<a, b>> \in {p \in DelayRaws \X DelayRaws : p[1] <= p[2]}}
      [] c = "VideoContentTypeExtension" ->
           {[content_type |-> t] : t \in 0..(TOTAL_CONTENT_TYPES - 1)}
      [] c = "VideoTimingExtension" ->
           [encode_start_delta_ms : TimingDeltas,
            encode_finish_delta_ms : TimingDeltas,
            packetization_finish_delta_ms : TimingDeltas,
            pacer_exit_delta_ms : TimingDeltas,
            network_timstamp_delta_ms : {0, 513},
            network2_timstamp_delta_ms : {0, 65535},
            is_timing_frame : BOOLEAN]
      [] c \in {"RtpStreamId", "RepairedRtpStreamId"} ->
           {[rsid |-> [i \in 1..n |-> 96 + i]] : n \in {1, 2, kMaxSize - 1, kMaxSize}}
      [] c = "FrameMarking" ->
           [start_of_frame : BOOLEAN, end_of_frame : BOOLEAN,
            independent : BOOLEAN, discardable : BOOLEAN,
            base_layer_sync : BOOLEAN,
            temporal_layer_id : {0, 1, 7, kNoTemporalIdx},
            layer_id : {0, 1, 128, kNoSpatialIdx},
            tl0_pic_idx : {kNoTl0PicIdx, 0, 1, 255}]

\* the contents of the out-parameter before a Parse
OutBefore(c) ==
    CASE c = "AbsoluteSendTime"          -> [time_24bits |-> 11259375]
      [] c = "AudioLevel"                -> [voice_activity |-> TRUE, audio_level |-> 99]
      [] c = "TransmissionOffset"        -> [rtp_time |-> -11259375]
      [] c = "TransportSequenceNumber"   -> [value |-> 43981]
      [] c = "VideoOrientation"          -> [rotation |-> 270]
      [] c = "VideoOrientationByte"      -> [value |-> 171]
      [] c = "PlayoutDelayLimits"        -> [min_ms |-> -1, max_ms |-> -1]
      [] c = "VideoContentTypeExtension" -> [content_type |-> 1]
      [] c = "VideoTimingExtension" ->
           [encode_start_delta_ms |-> 1, encode_finish_delta_ms |-> 2,
            packetization_finish_delta_ms |-> 3, pacer_exit_delta_ms |-> 4,
            network_timstamp_delta_ms |-> 5, network2_timstamp_delta_ms |-> 6,
            is_timing_frame |-> FALSE]
      [] c \in {"RtpStreamId", "RepairedRtpStreamId"} -> [rsid |-> <<111, 108, 100>>]
      [] c = "FrameMarking" ->
           [start_of_frame |-> FALSE, end_of_frame |-> TRUE,
            independent |-> FALSE, discardable |-> TRUE,
            base_layer_sync |-> TRUE, temporal_layer_id |-> 5,
            layer_id |-> 77, tl0_pic_idx |-> 88]

\* the memories handed to Parse that no Write produced
RawMemories ==
    { [i \in 1..MemLen |-> 0],
      [i \in 1..MemLen |-> 255],
      [i \in 1..MemLen |-> Byte(17 * i)],
      [i \in 1..MemLen |-> 255 - 15 * (i - 1)],
      [i \in 1..MemLen |-> IF i = 4 THEN 0 ELSE Byte(17 * i)],
      [i \in 1..MemLen |-> IF i = 1 THEN 1 ELSE 0] }

\* the views handed to Parse: every size over the raw memories, and every
\* pair of 12-bit fields as a 3-byte view
RawViews(c) ==
    [mem : RawMemories, size : 0..kMaxSize]
    \cup (IF c = "PlayoutDelayLimits"
          THEN {[mem |-> WriteBigEndian(DestMemory, 0, 3, a * 4096 + b), size |-> 3] :
                  <<a, b>> \in DelayRaws \X DelayRaws}
          ELSE {})

(***************************************************************************)
(* Inputs                                                                  *)
(***************************************************************************)
\* header fields of the outer packets the sender is given
Headers ==
    { [marker |-> FALSE, pt |-> 96,  seq |-> 1000,  ts |-> 48000,      ssrc |-> 287454020],
      [marker |-> TRUE,  pt |-> 127, seq |-> 65535, ts |-> 2147483647, ssrc |-> 2147418113] }

PeerHeader == [marker |-> FALSE, pt |-> 96, seq |-> 1000, ts |-> 48000, ssrc |-> 287454020]

\* plaintext payload sizes: empty, one byte, and the two longest
PayloadLens == {0, 1, MaxLen - 1, MaxLen}

\* plaintext payloads: n bytes, all different from each other
PlainPayload(n) == [i \in 1..n |-> Byte(37 * i + 11)]

\* MaxPayloadSize() of the outer packets: one that a payload of MaxLen - 1
\* bytes with a 10-byte tag fills exactly, and one that everything fits
MaxPayloadSizes(k) == {ohb_size(k) + (MaxLen - 1) + 10, 64}

\* lengths of the all-zero buffers handed to Decrypt
JunkLens(k) == {0, ohb_size(k) - 1, ohb_size(k), ohb_size(k) + 3,
                ohb_size(k) + 9, ohb_size(k) + 15, ohb_size(k) + 16}

\* the suites a remote peer protects with
PeerSuites == {SRTP_AES128_CM_SHA1_80, SRTP_AEAD_AES_128_GCM}

\* the length of the key buffer that belongs to a suite
KeyBufferLen(cs) ==
    GetSrtpKeyAndSaltLengths(cs).key_len + GetSrtpKeyAndSaltLengths(cs).salt_len

NoHeader == [marker |-> FALSE, pt |-> 0, seq |-> 0, ts |-> 0, ssrc |-> 0]

NoPacket == NoHeader @@ [payload |-> <<>>, max |-> 0]

\* the record of the most recent call: its inputs, its outputs, what it did
NoCall == [op |-> "none", eng |-> "none", ret |-> FALSE, value |-> 0,
           exit |-> "none", pre |-> DoublePERC_Init,
           setter |-> "none", cs |-> "none", key |-> NULL, len |-> 0,
           create_ok |-> FALSE,
           packet_in |-> NoPacket, packet_out |-> NoPacket,
           inner |-> <<>>, in_len |-> 0, max_len |-> 0,
           called |-> FALSE, status |-> "none", verdict |-> "none",
           mallocs |-> 0, frees |-> 0,
           payload_in |-> <<>>, payload_out |-> <<>>, payload_length |-> 0,
           src |-> "none", sender |-> NullSession]

(***************************************************************************)
(* State machine                                                           *)
(***************************************************************************)
Init ==
    /\ kind \in Kinds
    /\ engines = [x \in Engines |->
                    IF kind = "DoublePERC" THEN DoublePERC_Init ELSE MediaCrypto_Init]
    /\ last = NoCall

\* x.SetOutboundKey(cs, key, len) / x.SetInboundKey(cs, key, len)
SetKeyCall(x, setter, cs, key, len, create_ok) ==
    LET e == engines[x]
    IN  \E r \in {CASE kind = "DoublePERC" /\ setter = "SetOutboundKey" ->
                      DoublePERC_SetOutboundKey(e, cs, key, len, create_ok)
                 [] kind = "DoublePERC" /\ setter = "SetInboundKey" ->
                      DoublePERC_SetInboundKey(e, cs, key, len, create_ok)
                 [] kind = "MediaCrypto" /\ setter = "SetOutboundKey" ->
                      MediaCrypto_SetOutboundKey(e, cs, key, len, create_ok)
                 [] kind = "MediaCrypto" /\ setter = "SetInboundKey" ->
                      MediaCrypto_SetInboundKey(e, cs, key, len, create_ok)} :
        /\ engines' = [engines EXCEPT ![x] = r.e]
        /\ last' = [op |-> "SetKey", eng |-> x, ret |-> r.ret, exit |-> r.exit,
                    pre |-> e, setter |-> setter, cs |-> cs, key |-> key,
                    len |-> len, create_ok |-> create_ok] @@ NoCall
        /\ UNCHANGED kind

\* the sender is keyed with SetOutboundKey and the receiver with
\* SetInboundKey, each with the key buffer that belongs to the suite;
\* srtp_create, when the call gets that far, may fail
SetOutboundKey ==
    \E cs \in SupportedSuites, create_ok \in BOOLEAN :
        /\ create_ok \/ engines["snd"].session_ = NullSession
        /\ SetKeyCall("snd", "SetOutboundKey", cs, 1, KeyBufferLen(cs), create_ok)

SetInboundKey ==
    \E cs \in SupportedSuites, create_ok \in BOOLEAN :
        /\ create_ok \/ engines["rcv"].session_ = NullSession
        /\ SetKeyCall("rcv", "SetInboundKey", cs, 1, KeyBufferLen(cs), create_ok)

\* key setup with arbitrary arguments; srtp_create is consulted, and may
\* fail, only when the arguments pass validation
SetOutboundKeyAny ==
    \E cs \in CipherSuites, key \in Keys \cup {NULL}, len \in KeyLens,
       create_ok \in BOOLEAN :
        /\ create_ok \/ (cs \in SupportedSuites /\ key # NULL /\ len = KeyBufferLen(cs))
        /\ SetKeyCall("snd", "SetOutboundKey", cs, key, len, create_ok)

SetInboundKeyAny ==
    \E cs \in CipherSuites, key \in Keys \cup {NULL}, len \in KeyLens,
       create_ok \in BOOLEAN :
        /\ create_ok \/ (cs \in SupportedSuites /\ key # NULL /\ len = KeyBufferLen(cs))
        /\ SetKeyCall("snd", "SetInboundKey", cs, key, len, create_ok)

EncryptOf(k, e, packet, verdict) ==
    IF k = "DoublePERC" THEN DoublePERC_Encrypt(e, packet, verdict)
    ELSE MediaCrypto_Encrypt(e, packet, verdict)

\* snd.Encrypt(packet)
Encrypt ==
    \E hdr \in Headers, n \in PayloadLens, max \in MaxPayloadSizes(kind),
       verdict \in SrtpStatus :
        LET e      == engines["snd"]
            packet == hdr @@ [payload |-> PlainPayload(n), max |-> max]
        IN  \E r \in {EncryptOf(kind, e, packet, verdict)} :
            /\ r.called \/ verdict = "ok"
            /\ last' = [op |-> "Encrypt", eng |-> "snd", ret |-> r.ret,
                        exit |-> r.exit, pre |-> e, packet_in |-> packet,
                        packet_out |-> r.packet, inner |-> r.inner,
                        in_len |-> r.in_len, max_len |-> r.max_len,
                        called |-> r.called, status |-> r.status,
                        verdict |-> verdict,
                        mallocs |-> r.mallocs, frees |-> r.frees] @@ NoCall
            /\ UNCHANGED <<kind, engines>>

\* rcv.Decrypt(payload, &payload_length); src, sent and sender tell where
\* the payload came from: the packet it protects and the session that did it
DecryptCall(payload, src, sent, sender, verdict) ==
    LET e == engines["rcv"]
    IN  \E r \in {IF kind = "DoublePERC"
                  THEN DoublePERC_Decrypt(e, payload, verdict)
                  ELSE MediaCrypto_Decrypt(e, payload, verdict)} :
        /\ r.called \/ verdict = "ok"
        /\ last' = [op |-> "Decrypt", eng |-> "rcv", ret |-> r.ret,
                    exit |-> r.exit, pre |-> e, payload_in |-> payload,
                    payload_out |-> r.payload,
                    payload_length |-> r.payload_length,
                    in_len |-> r.in_len, called |-> r.called,
                    status |-> r.status, verdict |-> verdict,
                    mallocs |-> r.mallocs, frees |-> r.frees,
                    src |-> src, packet_in |-> sent,
                    sender |-> sender] @@ NoCall
        /\ UNCHANGED <<kind, engines>>

\* rcv.Decrypt on the payload that a successful snd.Encrypt left in a packet
Decrypt ==
    \E hdr \in Headers, n \in PayloadLens, max \in MaxPayloadSizes(kind),
       verdict \in SrtpStatus :
        LET packet == hdr @@ [payload |-> PlainPayload(n), max |-> max]
        IN  \E enc \in {EncryptOf(kind, engines["snd"], packet, "ok")} :
            /\ enc.ret
            /\ DecryptCall(enc.packet.payload, "Encrypt", packet,
                           engines["snd"].session_, verdict)

\* the protected payload section 4.4 specifies Encrypt to emit for a packet:
\* Protect over 0x80, the OHB and the payload, without the first byte
WellFormed(k, session, hdr, plain) ==
    LET data  == Packet_data(hdr)
        inner == <<128>> \o SubSeq(data, 2, 1 + ohb_size(k)) \o plain
        r     == srtp_protect(session, inner, Len(inner), "ok")
    IN  [ok |-> r.status = "ok", data |-> Tail(r.p)]

\* rcv.Decrypt on a well-formed protected payload from a conforming peer
DecryptPeer ==
    \E n \in PayloadLens, cs \in PeerSuites, verdict \in SrtpStatus :
        LET session == [alloc |-> TRUE, type |-> ssrc_any_outbound,
                        cs |-> cs, key |-> 1]
        IN  \E w \in {WellFormed(kind, session, PeerHeader, PlainPayload(n))} :
            /\ w.ok
            /\ DecryptCall(w.data, "Peer",
                           PeerHeader @@ [payload |-> PlainPayload(n), max |-> 64],
                           session, verdict)

\* rcv.Decrypt on a buffer that no sender produced
DecryptJunk ==
    \E l \in JunkLens(kind), verdict \in SrtpStatus :
        DecryptCall([i \in 1..l |-> 0], "Junk", NoPacket, NullSession, verdict)

\* MediaCrypto::GetEncryptionOverhead() on either engine
GetEncryptionOverhead ==
    /\ kind = "MediaCrypto"
    /\ \E x \in Engines :
        /\ last' = [op |-> "GetEncryptionOverhead", eng |-> x,
                    pre |-> engines[x],
                    value |-> MediaCrypto_GetEncryptionOverhead(engines[x])]
                   @@ NoCall
        /\ UNCHANGED <<kind, engines>>

Next ==
    \/ SetOutboundKey
    \/ SetInboundKey
    \/ Encrypt
    \/ Decrypt
    \/ DecryptPeer
    \/ DecryptJunk
    \/ GetEncryptionOverhead

Spec == Init /\ [][Next]_vars

\* key setup alone, with every kind of argument
NextKey ==
    \/ SetOutboundKeyAny
    \/ SetInboundKeyAny

SpecKey == Init /\ [][NextKey]_vars

(***************************************************************************)
(* The two classes side by side: in this specification engines holds one   *)
(* DoublePERC and one MediaCrypto object, every call is made on both with  *)
(* the same arguments and the same answer of the SRTP engine, and last     *)
(* holds what each of them did (d: DoublePERC, m: MediaCrypto)             *)
(***************************************************************************)
PairInit ==
    /\ kind = "pair"
    /\ engines = [k \in Kinds |->
                    IF k = "DoublePERC" THEN DoublePERC_Init ELSE MediaCrypto_Init]
    /\ last = [op |-> "none"]

\* d.SetOutboundKey(cs, key, len) and m.SetOutboundKey(cs, key, len)
PairSetOutboundKey ==
    \E cs \in CipherSuites :
        \E d \in {DoublePERC_SetOutboundKey(engines["DoublePERC"], cs, 1,
                                            KeyBufferLen(cs), TRUE)},
           m \in {MediaCrypto_SetOutboundKey(engines["MediaCrypto"], cs, 1,
                                             KeyBufferLen(cs), TRUE)} :
            /\ engines' = [k \in Kinds |-> IF k = "DoublePERC" THEN d.e ELSE m.e]
            /\ last' = [op |-> "SetOutboundKey", cs |-> cs,
                        d |-> [ret |-> d.ret, exit |-> d.exit],
                        m |-> [ret |-> m.ret, exit |-> m.exit]]
            /\ UNCHANGED kind

\* d.SetInboundKey(cs, key, len) and m.SetInboundKey(cs, key, len)
PairSetInboundKey ==
    \E cs \in CipherSuites :
        \E d \in {DoublePERC_SetInboundKey(engines["DoublePERC"], cs, 1,
                                           KeyBufferLen(cs), TRUE)},
           m \in {MediaCrypto_SetInboundKey(engines["MediaCrypto"], cs, 1,
                                            KeyBufferLen(cs), TRUE)} :
            /\ engines' = [k \in Kinds |-> IF k = "DoublePERC" THEN d.e ELSE m.e]
            /\ last' = [op |-> "SetInboundKey", cs |-> cs,
                        d |-> [ret |-> d.ret, exit |-> d.exit],
                        m |-> [ret |-> m.ret, exit |-> m.exit]]
            /\ UNCHANGED kind

\* d.Encrypt(packet) and m.Encrypt(packet) on two copies of one packet
PairEncrypt ==
    \E hdr \in Headers, n \in PayloadLens,
       max \in MaxPayloadSizes("MediaCrypto"), verdict \in SrtpStatus :
        LET packet == hdr @@ [payload |-> PlainPayload(n), max |-> max]
        IN  \E d \in {DoublePERC_Encrypt(engines["DoublePERC"], packet, verdict)},
               m \in {MediaCrypto_Encrypt(engines["MediaCrypto"], packet, verdict)} :
            /\ d.called \/ m.called \/ verdict = "ok"
            /\ last' = [op |-> "Encrypt", packet_in |-> packet,
                        verdict |-> verdict,
                        keyed |-> engines["MediaCrypto"].session_.alloc,
                        d |-> [ret |-> d.ret, exit |-> d.exit,
                               payload |-> d.packet.payload],
                        m |-> [ret |-> m.ret, exit |-> m.exit,
                               payload |-> m.packet.payload]]
            /\ UNCHANGED <<kind, engines>>

\* d.Decrypt and m.Decrypt, each on the protected payload of its own form
\* that a conforming peer made of one plaintext with the engines' suite
PairDecrypt ==
    \E n \in PayloadLens, verdict \in SrtpStatus :
        LET session == [alloc |-> TRUE, type |-> ssrc_any_outbound,
                        cs |-> engines["MediaCrypto"].session_.cs, key |-> 1]
            plain   == PlainPayload(n)
        IN  /\ engines["MediaCrypto"].session_.alloc
            /\ \E wd \in {WellFormed("DoublePERC", session, PeerHeader, plain)},
                  wm \in {WellFormed("MediaCrypto", session, PeerHeader, plain)} :
                /\ wd.ok /\ wm.ok
                /\ \E d \in {DoublePERC_Decrypt(engines["DoublePERC"], wd.data, verdict)},
                      m \in {MediaCrypto_Decrypt(engines["MediaCrypto"], wm.data, verdict)} :
                    /\ last' = [op |-> "Decrypt", plain |-> plain,
                                verdict |-> verdict,
                                d |-> [ret |-> d.ret, exit |-> d.exit,
                                       payload_length |-> d.payload_length],
                                m |-> [ret |-> m.ret, exit |-> m.exit,
                                       payload_length |-> m.payload_length]]
                    /\ UNCHANGED <<kind, engines>>

NextPair ==
    \/ PairSetOutboundKey
    \/ PairSetInboundKey
    \/ PairEncrypt
    \/ PairDecrypt

SpecPair == PairInit /\ [][NextPair]_vars

(***************************************************************************)
(* The life of one engine object, from construction to destruction: in     *)
(* this specification engines holds the object (obj), whether it has not   *)
(* been destroyed yet (alive), and the history of its session handle: the  *)
(* number of handles srtp_create has returned (creates), the number of     *)
(* srtp_dealloc calls (deallocs) and the number of key setups that         *)
(* returned true (succeeded).  A failing srtp_create returns no handle.    *)
(***************************************************************************)
LifeInit ==
    /\ kind \in Kinds
    /\ engines = [obj |-> IF kind = "DoublePERC" THEN DoublePERC_Init
                          ELSE MediaCrypto_Init,
                  alive |-> TRUE, creates |-> 0, deallocs |-> 0,
                  succeeded |-> 0]
    /\ last = [op |-> "none", ret |-> FALSE, exit |-> "none", cs |-> "none"]

\* obj.SetOutboundKey / obj.SetInboundKey with any arguments; srtp_create is
\* consulted, and may fail, only when the call gets that far
LifeSetKey ==
    /\ engines.alive
    /\ \E setter \in {"SetOutboundKey", "SetInboundKey"}, cs \in CipherSuites,
          key \in {NULL, 1}, len \in KeyLens, create_ok \in BOOLEAN :
        LET e == engines.obj
        IN  \E r \in {CASE kind = "DoublePERC" /\ setter = "SetOutboundKey" ->
                          DoublePERC_SetOutboundKey(e, cs, key, len, create_ok)
                     [] kind = "DoublePERC" /\ setter = "SetInboundKey" ->
                          DoublePERC_SetInboundKey(e, cs, key, len, create_ok)
                     [] kind = "MediaCrypto" /\ setter = "SetOutboundKey" ->
                          MediaCrypto_SetOutboundKey(e, cs, key, len, create_ok)
                     [] kind = "MediaCrypto" /\ setter = "SetInboundKey" ->
                          MediaCrypto_SetInboundKey(e, cs, key, len, create_ok)} :
            /\ create_ok \/ r.exit = "create_failed"
            /\ engines' = [engines EXCEPT
                             !.obj = r.e,
                             !.creates = @ + (IF r.exit = "ok" THEN 1 ELSE 0),
                             !.succeeded = @ + (IF r.ret THEN 1 ELSE 0)]
            /\ last' = [op |-> "SetKey", ret |-> r.ret, exit |-> r.exit, cs |-> cs]
            /\ UNCHANGED kind

\* obj.Encrypt(packet)
LifeEncrypt ==
    /\ engines.alive
    /\ \E n \in PayloadLens, verdict \in SrtpStatus :
        LET packet == PeerHeader @@ [payload |-> PlainPayload(n), max |-> 64]
        IN  \E r \in {EncryptOf(kind, engines.obj, packet, verdict)} :
            /\ r.called \/ verdict = "ok"
            /\ last' = [op |-> "Encrypt", ret |-> r.ret, exit |-> r.exit,
                        cs |-> "none"]
            /\ UNCHANGED <<kind, engines>>

\* obj.Decrypt(payload, &payload_length) on a well-formed payload of a peer
\* that uses the first key buffer, or on a buffer of zeros
LifeDecrypt ==
    /\ engines.alive
    /\ \E n \in PayloadLens, cs \in PeerSuites, junk \in BOOLEAN,
          verdict \in SrtpStatus :
        LET session == [alloc |-> TRUE, type |-> ssrc_any_outbound,
                        cs |-> cs, key |-> 1]
            w       == WellFormed(kind, session, PeerHeader, PlainPayload(n))
            payload == IF junk THEN [i \in 1..(ohb_size(kind) + n) |-> 0]
                       ELSE w.data
        IN  \E r \in {IF kind = "DoublePERC"
                      THEN DoublePERC_Decrypt(engines.obj, payload, verdict)
                      ELSE MediaCrypto_Decrypt(engines.obj, payload, verdict)} :
            /\ r.called \/ verdict = "ok"
            /\ last' = [op |-> "Decrypt", ret |-> r.ret, exit |-> r.exit,
                        cs |-> cs]
            /\ UNCHANGED <<kind, engines>>

\* the destructor: the last call on the object
Destroy ==
    /\ engines.alive
    /\ \E r \in {IF kind = "DoublePERC" THEN DoublePERC_Destroy(engines.obj)
                  ELSE MediaCrypto_Destroy(engines.obj)} :
        /\ engines' = [engines EXCEPT
                         !.alive = FALSE,
                         !.deallocs = @ + (IF r.dealloc THEN 1 ELSE 0)]
        /\ last' = [op |-> "Destroy", ret |-> r.dealloc, exit |-> "none",
                    cs |-> "none"]
        /\ UNCHANGED kind

NextLife ==
    \/ LifeSetKey
    \/ LifeEncrypt
    \/ LifeDecrypt
    \/ Destroy

SpecLife == LifeInit /\ [][NextLife]_vars

(***************************************************************************)
(* The codecs: in this specification last holds a codec and its input      *)
(* (a value for Write, or a view for Parse), then what the call did        *)
(***************************************************************************)
CodecInit ==
    /\ kind = "codec"
    /\ engines = <<>>
    /\ \E c \in Codecs :
         \/ \E v \in CodecValues(c) :
                last = [op |-> "value", codec |-> c, value |-> v]
         \/ \E d \in RawViews(c) :
                last = [op |-> "bytes", codec |-> c, data |-> d]
         \/ /\ c = "VideoTimingExtension"
            /\ \E d \in TimingDeltas, i \in 0..5 :
                last = [op |-> "delta", codec |-> c, delta |-> d, idx |-> i]

\* X::Write(data, v) into the first bytes of the destination
Write ==
    /\ last.op = "value"
    /\ \E r \in {WriteOf(last.codec, DestMemory, last.value)} :
         last' = [op |-> "Write", codec |-> last.codec, value |-> last.value,
                  size |-> ValueSizeOf(last.codec, last.value),
                  ret |-> r.ret, before |-> DestMemory, data |-> r.data,
                  written |-> r.written]
    /\ UNCHANGED <<kind, engines>>

\* X::Parse over the first ValueSize bytes that Write left
ParseWritten ==
    /\ last.op = "Write"
    /\ LET view == [mem |-> last.data, size |-> last.size]
       IN  \E r \in {ParseOf(last.codec, view, OutBefore(last.codec))} :
             last' = [op |-> "Parse", src |-> "Write", codec |-> last.codec,
                      value |-> last.value, data |-> view,
                      before |-> OutBefore(last.codec),
                      ret |-> r.ret, out |-> r.out, reads |-> r.reads]
    /\ UNCHANGED <<kind, engines>>

\* X::Parse over a view that came from elsewhere
ParseBytes ==
    /\ last.op = "bytes"
    /\ \E r \in {ParseOf(last.codec, last.data, OutBefore(last.codec))} :
         last' = [op |-> "Parse", src |-> "bytes", codec |-> last.codec,
                  value |-> OutBefore(last.codec), data |-> last.data,
                  before |-> OutBefore(last.codec),
                  ret |-> r.ret, out |-> r.out, reads |-> r.reads]
    /\ UNCHANGED <<kind, engines>>

\* VideoTimingExtension::Write(data, time_delta_ms, idx) into the destination
WriteDelta ==
    /\ last.op = "delta"
    /\ \E r \in {VideoTimingExtension_WriteIdx(DestMemory, last.delta, last.idx)} :
         last' = [op |-> "WriteDelta", codec |-> last.codec,
                  delta |-> last.delta, idx |-> last.idx,
                  ret |-> r.ret, before |-> DestMemory, data |-> r.data,
                  written |-> r.written]
    /\ UNCHANGED <<kind, engines>>

NextCodec ==
    \/ Write
    \/ ParseWritten
    \/ ParseBytes
    \/ WriteDelta

SpecCodec == CodecInit /\ [][NextCodec]_vars

(***************************************************************************)
(* MultiEndCall::CheckTiming (conversational_speech/multiend_call.cc).     *)
(* In this specification engines holds the object as constructed: timing_, *)
(* the turns of the conversation, and speaker_names_; last holds the       *)
(* position inside CheckTiming (pc, turn_index), its locals last_turn and  *)
(* second_last_turn, the members it fills in and, once it has returned,    *)
(* its result.                                                             *)
(***************************************************************************)
\* the largest number of turns of a conversation
MaxTurns == 3

\* the lambda millisecond_to_samples(ms, sr): the int quotient ms * sr / 1000
\* is truncated towards zero
millisecond_to_samples(ms, sr) ==
    IF ms * sr >= 0 THEN (ms * sr) \div 1000 ELSE -((-(ms * sr)) \div 1000)

\* the lambda in_interval(value, interval)
in_interval(value, interval) ==
    interval.begin <= value /\ value < interval.end

\* audiotrack_readers_: SampleRate() and NumSamples() of each audio track
audiotrack_readers_ ==
    [f \in {"t8k", "t44k"} |->
        IF f = "t8k" THEN [SampleRate |-> 8000, NumSamples |-> 16]
        ELSE [SampleRate |-> 44100, NumSamples |-> 88]]

\* the turns a timing file can hold: two speakers, the two audio tracks and
\* offsets in milliseconds
Turns == [speaker_name : {"A", "B"},
          audiotrack_file_name : DOMAIN audiotrack_readers_,
          offset : {-2, -1, 0, 1}]

\* all sequences over S of length 0..n
RECURSIVE SeqsUpTo(_, _)
SeqsUpTo(S, n) ==
    IF n = 0 THEN {<<>>}
    ELSE LET shorter == SeqsUpTo(S, n - 1)
         IN  shorter \cup {Append(q, x) : q \in {r \in shorter : Len(r) = n - 1},
                                          x \in S}

\* CheckTiming before its first turn: the members cleared, the two
\* intervals {0, 0}
CheckTiming_Begin ==
    [pc |-> "turns", turn_index |-> 0, speaking_turns_ |-> <<>>,
     total_duration_samples_ |-> 0,
     second_last_turn |-> [begin |-> 0, end |-> 0],
     last_turn |-> [begin |-> 0, end |-> 0],
     ret |-> FALSE, exit |-> "none"]

\* one iteration of the turn loop with the order test comparing the offset
\* with the end of the previous turn instead of its duration
CheckTiming_ParseTurn_OrderAgainstEnd(st, turn) ==
    LET reader          == audiotrack_readers_[turn.audiotrack_file_name]
        offset_samples  == millisecond_to_samples(turn.offset, reader.SampleRate)
        begin_timestamp == st.last_turn.end + offset_samples
        end_timestamp   == begin_timestamp + reader.NumSamples
    IN  IF offset_samples < 0 /\ -offset_samples > st.last_turn.end
        THEN [st EXCEPT !.pc = "done", !.ret = FALSE, !.exit = "invalid_order"]
        ELSE IF /\ st.turn_index > 1
                /\ in_interval(begin_timestamp, st.last_turn)
                /\ in_interval(begin_timestamp, st.second_last_turn)
        THEN [st EXCEPT !.pc = "done", !.ret = FALSE, !.exit = "cross_talk_3"]
        ELSE [st EXCEPT
                !.speaking_turns_ =
                    Append(@, [speaker_name |-> turn.speaker_name,
                               audiotrack_file_name |-> turn.audiotrack_file_name,
                               begin |-> begin_timestamp,
                               end |-> end_timestamp]),
                !.total_duration_samples_ =
                    IF @ < end_timestamp THEN end_timestamp ELSE @,
                !.second_last_turn = st.last_turn,
                !.last_turn = [begin |-> begin_timestamp, end |-> end_timestamp],
                !.turn_index = @ + 1]

\* one iteration of the turn loop of CheckTiming on timing_[turn_index];
\* begin_timestamp is a size_t that is only used once the order test has
\* shown it to be at least last_turn.begin
CheckTiming_ParseTurn(st, turn) ==
    LET reader          == audiotrack_readers_[turn.audiotrack_file_name]
        offset_samples  == millisecond_to_samples(turn.offset, reader.SampleRate)
        begin_timestamp == st.last_turn.end + offset_samples
        end_timestamp   == begin_timestamp + reader.NumSamples
    IN  IF /\ offset_samples < 0
           /\ -offset_samples > st.last_turn.end - st.last_turn.begin
        THEN [st EXCEPT !.pc = "done", !.ret = FALSE, !.exit = "invalid_order"]
        ELSE IF /\ st.turn_index > 1
                /\ in_interval(begin_timestamp, st.last_turn)
                /\ in_interval(begin_timestamp, st.second_last_turn)
        THEN [st EXCEPT !.pc = "done", !.ret = FALSE, !.exit = "cross_talk_3"]
        ELSE [st EXCEPT
                !.speaking_turns_ =
                    Append(@, [speaker_name |-> turn.speaker_name,
                               audiotrack_file_name |-> turn.audiotrack_file_name,
                               begin |-> begin_timestamp,
                               end |-> end_timestamp]),
                !.total_duration_samples_ =
                    IF @ < end_timestamp THEN end_timestamp ELSE @,
                !.second_last_turn = st.last_turn,
                !.last_turn = [begin |-> begin_timestamp, end |-> end_timestamp],
                !.turn_index = @ + 1]

\* the second loop of CheckTiming and its return: std::adjacent_find over
\* the turns of each speaker looks for an element that ends after the next
\* one begins
CheckTiming_DetectSelfCrossTalk(st, speaker_names) ==
    IF \E speaker_name \in speaker_names :
           LET speaking_turns_for_name ==
                   SelectSeq(st.speaking_turns_,
                             LAMBDA t : t.speaker_name = speaker_name)
           IN  \E i \in 1..(Len(speaking_turns_for_name) - 1) :
                   speaking_turns_for_name[i].end
                     > speaking_turns_for_name[i + 1].begin
    THEN [st EXCEPT !.pc = "done", !.ret = FALSE, !.exit = "self_cross_talk"]
    ELSE [st EXCEPT !.pc = "done", !.ret = TRUE, !.exit = "ok"]

\* MultiEndCall::MultiEndCall up to the call of CheckTiming: FindSpeakerNames
\* has collected the speakers of timing_
TimingInit ==
    /\ kind = "MultiEndCall"
    /\ \E timing \in SeqsUpTo(Turns, MaxTurns) :
         engines = [timing_ |-> timing,
                    speaker_names_ |->
                        {timing[i].speaker_name : i \in 1..Len(timing)}]
    /\ last = CheckTiming_Begin

\* the body of the turn loop
ParseTurn ==
    /\ last.pc = "turns"
    /\ last.turn_index < Len(engines.timing_)
    /\ last' = CheckTiming_ParseTurn(last, engines.timing_[last.turn_index + 1])
    /\ UNCHANGED <<kind, engines>>

\* the turn loop has run to its end: self cross-talk detection and return
DetectSelfCrossTalk ==
    /\ last.pc = "turns"
    /\ last.turn_index = Len(engines.timing_)
    /\ last' = CheckTiming_DetectSelfCrossTalk(last, engines.speaker_names_)
    /\ UNCHANGED <<kind, engines>>

NextTiming ==
    \/ ParseTurn
    \/ DetectSelfCrossTalk

SpecTiming == TimingInit /\ [][NextTiming]_vars

(***************************************************************************)
(* Properties                                                              *)
(***************************************************************************)
\* the receiver was keyed with the suite and key the payload was protected with
KeyedIdentically == /\ last.pre.session_.alloc
                    /\ last.sender.alloc
                    /\ last.pre.session_.cs = last.sender.cs
                    /\ last.pre.session_.key = last.sender.key

\* the first n bytes of the caller's buffer after Decrypt
Recovered == SubSeq(last.payload_out, 1, Min(last.payload_length, Len(last.payload_out)))

\* C1: long-OHB engine, sender keyed with SetOutboundKey and receiver with
\* SetInboundKey on the same suite and key, engine accepting: Decrypt of the
\* payload a successful Encrypt left in the packet returns true, sets
\* *payload_length to the original payload size and leaves the original
\* payload in the first bytes of the buffer.
C1_EncryptDecryptIdentity ==
    ( /\ kind = "MediaCrypto"
      /\ last.op = "Decrypt"
      /\ last.src = "Encrypt"
      /\ KeyedIdentically
      /\ last.verdict = "ok" )
    => /\ last.ret
       /\ last.payload_length = Len(last.packet_in.payload)
       /\ Recovered = last.packet_in.payload

\* C1 witness: a round trip of a non-empty payload that filled the sender's
\* packet to exactly MaxPayloadSize
C1_Witness ==
    /\ kind = "MediaCrypto"
    /\ last.op = "Decrypt"
    /\ last.src = "Encrypt"
    /\ KeyedIdentically
    /\ last.verdict = "ok"
    /\ last.ret
    /\ Len(last.packet_in.payload) = MaxLen - 1
    /\ Len(last.payload_in) = last.packet_in.max

\* C2: short-OHB engine: Decrypt of a well-formed short-form protected payload
\* (7 OHB bytes, n payload bytes, tag) returns true, sets *payload_length to
\* exactly n and leaves the n plaintext bytes, without any OHB byte, in the
\* buffer.
C2_ShortDecryptIdentity ==
    ( /\ kind = "DoublePERC"
      /\ last.op = "Decrypt"
      /\ last.src = "Peer"
      /\ KeyedIdentically
      /\ last.verdict = "ok" )
    => /\ last.ret
       /\ last.payload_length = Len(last.packet_in.payload)
       /\ Recovered = last.packet_in.payload

\* C3: short-OHB engine, keyed, engine accepting: Encrypt of a payload of n
\* bytes with 7 + n + tag <= MaxPayloadSize returns true and leaves a payload
\* of exactly 7 + n + tag bytes.
C3_ShortEncryptSize ==
    ( /\ kind = "DoublePERC"
      /\ last.op = "Encrypt"
      /\ last.pre.session_.alloc
      /\ last.verdict = "ok"
      /\ 1 + DoublePERC_ohb_size + Len(last.packet_in.payload) >= RtpHeaderLen
      /\ DoublePERC_ohb_size + Len(last.packet_in.payload)
           + last.pre.rtp_auth_tag_len_ <= last.packet_in.max )
    => /\ last.ret
       /\ Len(last.packet_out.payload) =
            DoublePERC_ohb_size + Len(last.packet_in.payload)
              + last.pre.rtp_auth_tag_len_

\* C4: long-OHB engine, keyed, engine accepting: Encrypt returns true iff
\* 11 + n + tag <= MaxPayloadSize, and on success the payload has exactly
\* 11 + n + tag bytes, the protected scratch bytes from offset 1 on.
C4_LongEncryptBoundary ==
    ( /\ kind = "MediaCrypto"
      /\ last.op = "Encrypt"
      /\ last.pre.session_.alloc
      /\ last.verdict = "ok" )
    => LET n    == Len(last.packet_in.payload)
           size == MediaCrypto_ohb_size + n + last.pre.rtp_auth_tag_len_
       IN  /\ last.ret <=> size <= last.packet_in.max
           /\ last.ret =>
                /\ Len(last.packet_out.payload) = size
                /\ last.packet_out.payload =
                     Tail(srtp_protect(last.pre.session_, last.inner,
                                       last.in_len, "ok").p)

\* C4 witness: an Encrypt that succeeds at the exact boundary
C4_Witness ==
    /\ kind = "MediaCrypto"
    /\ last.op = "Encrypt"
    /\ last.ret
    /\ Len(last.packet_in.payload) > 0
    /\ MediaCrypto_ohb_size + Len(last.packet_in.payload)
         + last.pre.rtp_auth_tag_len_ = last.packet_in.max

\* C5: whenever Encrypt returns false the outer packet is as it was before
\* the call.
C5_EncryptFailureNoMutation ==
    (last.op = "Encrypt" /\ ~last.ret) => last.packet_out = last.packet_in

\* C5 witness: the engine rejected a packet with a non-empty payload
C5_Witness ==
    /\ last.op = "Encrypt"
    /\ ~last.ret
    /\ last.exit = "protect_failed"
    /\ last.packet_in.payload # <<>>

\* C6: whenever Decrypt returns false the caller's buffer and
\* *payload_length are as they were before the call.
C6_DecryptFailureNoMutation ==
    (last.op = "Decrypt" /\ ~last.ret)
    => /\ last.payload_out = last.payload_in
       /\ last.payload_length = Len(last.payload_in)

\* C6 witness: the underlying unprotect failed on a payload of a keyed engine
C6_Witness ==
    /\ last.op = "Decrypt"
    /\ ~last.ret
    /\ last.called
    /\ last.exit = "unprotect_failed"

\* C7: Keyed is absorbing: on a keyed engine every key setup returns false,
\* and no call changes the session handle or the two tag lengths.
C7_KeyedAbsorbing ==
    [][ \A x \in Engines :
          engines[x].session_ # NullSession
          => /\ engines'[x] = engines[x]
             /\ (last'.op = "SetKey" /\ last'.eng = x) => ~last'.ret ]_vars

\* C7 witness: a key setup with valid arguments for another suite was refused
\* by a keyed engine
C7_Witness ==
    /\ last.op = "SetKey"
    /\ last.pre.session_ # NullSession
    /\ last.pre.session_.cs # last.cs
    /\ ~last.ret
    /\ engines[last.eng] = last.pre

\* the arguments of the last key setup pass validation and srtp_create succeeded
ValidKeyArguments ==
    /\ last.cs \in {SRTP_AES128_CM_SHA1_80, SRTP_AES128_CM_SHA1_32,
                    SRTP_AEAD_AES_128_GCM, SRTP_AEAD_AES_256_GCM}
    /\ last.key # NULL
    /\ last.len = KeyBufferLen(last.cs)
    /\ last.create_ok

\* C8: on an unkeyed engine SetKey returns true only for an enumerated suite,
\* a non-null key of exactly key_len + salt_len bytes and a successful
\* session creation; otherwise it returns false and the engine stays Unkeyed
\* with both tag lengths 0.
C8_SetKeyValidation ==
    (last.op = "SetKey" /\ last.pre.session_ = NullSession)
    => /\ last.ret <=> ValidKeyArguments
       /\ ~last.ret => /\ engines[last.eng].session_ = NullSession
                       /\ engines[last.eng].rtp_auth_tag_len_ = 0
                       /\ engines[last.eng].rtcp_auth_tag_len_ = 0

\* C8 witness: a supported suite with a key buffer of the wrong length
C8_Witness ==
    /\ last.op = "SetKey"
    /\ last.pre.session_ = NullSession
    /\ last.cs \in SupportedSuites
    /\ last.key # NULL
    /\ last.len # KeyBufferLen(last.cs)
    /\ ~last.ret

\* C9: when the underlying unprotect returns the replay-detected status,
\* Decrypt returns false and leaves the buffer and *payload_length alone.
C9_ReplayReportedAsFailure ==
    (last.op = "Decrypt" /\ last.status = "replay_fail")
    => /\ ~last.ret
       /\ last.payload_out = last.payload_in
       /\ last.payload_length = Len(last.payload_in)

\* C10: Decrypt returns false without invoking the underlying unprotect when
\* *payload_length < ohb_len + rtp_auth_tag_len; a payload of exactly that
\* length is not rejected by this check.
C10_MinimumLengthCheck ==
    last.op = "Decrypt"
    => LET min == ohb_size(kind) + last.pre.rtp_auth_tag_len_
       IN  /\ Len(last.payload_in) < min => (~last.ret /\ ~last.called)
           /\ Len(last.payload_in) = min => last.exit # "too_small"

\* C10 witness: a keyed engine refused a payload one byte short of the minimum
C10_Witness ==
    /\ last.op = "Decrypt"
    /\ last.pre.session_.alloc
    /\ Len(last.payload_in) = ohb_size(kind) + last.pre.rtp_auth_tag_len_ - 1
    /\ last.exit = "too_small"
    /\ ~last.ret

\* C11: on an engine without a session (no key setup has succeeded) every
\* Encrypt and every Decrypt returns false, and neither srtp_protect nor
\* srtp_unprotect is invoked.
C11_UnkeyedRejectsAll ==
    (last.op \in {"Encrypt", "Decrypt"} /\ last.pre.session_ = NullSession)
    => /\ ~last.ret
       /\ ~last.called
       /\ last.status = "none"

\* C11 witness: an unkeyed engine was handed a payload long enough to pass
\* the minimum-length test, built its scratch buffer and still refused
C11_Witness ==
    /\ last.op = "Decrypt"
    /\ last.pre.session_ = NullSession
    /\ Len(last.payload_in) >= ohb_size(kind) + RtpHeaderLen
    /\ last.exit = "no_session"
    /\ ~last.ret
    /\ ~last.called

\* C12: driven side by side with the same key setup, packets and answers of
\* the SRTP engine, DoublePERC and MediaCrypto return the same value from
\* every call, a packet both have encrypted is exactly 4 bytes longer from
\* MediaCrypto, and a payload both have decrypted has the same plaintext
\* length.
C12_SameAlgorithm ==
    /\ last.op # "none" => last.d.ret = last.m.ret
    /\ (last.op = "Encrypt" /\ last.d.ret /\ last.m.ret)
         => Len(last.m.payload) = Len(last.d.payload) + 4
    /\ (last.op = "Decrypt" /\ last.d.ret /\ last.m.ret)
         => last.d.payload_length = last.m.payload_length

\* the last call parsed the bytes that Write made of last.value
RoundTrip == last.op = "Parse" /\ last.src = "Write"

\* C13: for every fixed-size codec and every legal value v, Parse over the
\* kValueSizeBytes bytes that Write(v) produced succeeds and returns a value
\* equal to v in every field.
C13_FixedSizeRoundTrip ==
    ( /\ RoundTrip
      /\ last.codec \in FixedSizeCodecs
      /\ last.codec = "VideoTimingExtension" => last.value.is_timing_frame )
    => /\ last.ret
       /\ last.out = last.value

\* C13 as amended: the round trip returns v in every field for the fixed-size
\* codecs other than VideoTiming; for VideoTiming the four encode,
\* packetization and pacer deltas are returned as written, the two network
\* deltas are returned as 0 whatever v holds and is_timing_frame as true.
C13_FixedSizeRoundTripAmended ==
    (RoundTrip /\ last.codec \in FixedSizeCodecs)
    => /\ last.ret
       /\ last.out =
            IF last.codec = "VideoTimingExtension"
            THEN [last.value EXCEPT !.network_timstamp_delta_ms = 0,
                                    !.network2_timstamp_delta_ms = 0,
                                    !.is_timing_frame = TRUE]
            ELSE last.value

\* C13 witness: a timing with non-zero network deltas went through Write and
\* Parse and came back with its largest encode delta
C13_Witness ==
    /\ RoundTrip
    /\ last.codec = "VideoTimingExtension"
    /\ last.value.network_timstamp_delta_ms # 0
    /\ last.value.network2_timstamp_delta_ms # 0
    /\ last.ret
    /\ last.out.encode_start_delta_ms = 65535
    /\ last.out.network_timstamp_delta_ms = 0

\* the lengths C14 names as well-formed for each Parse
C14_Lengths(c) ==
    CASE c \in {"AbsoluteSendTime", "TransmissionOffset", "PlayoutDelayLimits"} -> {3}
      [] c \in {"AudioLevel", "VideoOrientation", "VideoOrientationByte",
                "VideoContentTypeExtension"} -> {1}
      [] c = "TransportSequenceNumber" -> {2}
      [] c = "VideoTimingExtension" -> {12}
      [] c = "FrameMarking" -> {1, 3}
      [] OTHER -> {}

\* C14: every Parse returns false on a malformed length (size other than 3
\* for AbsoluteSendTime, TransmissionOffset, PlayoutDelayLimits; other than 1
\* for AudioLevel, both VideoOrientation overloads, VideoContentType; other
\* than 2 for TransportSequenceNumber; other than 12 for VideoTiming; neither
\* 1 nor 3 for FrameMarking) and never reads an index >= data.size().
C14_MalformedLengthRejected ==
    (last.op = "Parse" /\ C14_Lengths(last.codec) # {})
    => /\ last.data.size \notin C14_Lengths(last.codec) => ~last.ret
       /\ \A i \in last.reads : i < last.data.size

\* C14 witness: FrameMarking refused a view of 2 bytes after reading byte 0
C14_Witness ==
    /\ last.op = "Parse"
    /\ last.codec = "FrameMarking"
    /\ last.data.size = 2
    /\ ~last.ret
    /\ last.reads = {0}

\* last.value lies in the domain the data model gives FrameMarks
InFrameMarksDomain ==
    /\ last.value.temporal_layer_id \in 0..7
    /\ last.value.layer_id \in 0..255
    /\ last.value.tl0_pic_idx \in 0..255

\* C15: for every FrameMarks v of the data model (any flags, any
\* base_layer_sync, temporal_layer_id 0..7, layer_id 0..255, tl0_pic_idx
\* 0..255), FrameMarking::Parse over the first ValueSize(v) bytes written by
\* FrameMarking::Write(v) succeeds and returns v in all eight fields.
C15_FrameMarkingRoundTrip ==
    (RoundTrip /\ last.codec = "FrameMarking" /\ InFrameMarksDomain)
    => /\ last.ret
       /\ last.out = last.value

\* C15 as amended: the round trip returns v in all eight fields for every
\* FrameMarks v of the data model except those whose layer_id is the "none"
\* value kNoSpatialIdx while base_layer_sync is false and temporal_layer_id
\* and tl0_pic_idx are 0: these are not scalable, are written in the 1-byte
\* form and come back with layer_id 0.
C15_FrameMarkingRoundTripAmended ==
    ( /\ RoundTrip
      /\ last.codec = "FrameMarking"
      /\ InFrameMarksDomain
      /\ ~( /\ ~last.value.base_layer_sync
            /\ last.value.temporal_layer_id = 0
            /\ last.value.layer_id = kNoSpatialIdx
            /\ last.value.tl0_pic_idx = 0 ) )
    => /\ last.ret
       /\ last.out = last.value

\* C15 witness: a value that is scalable only because temporal_layer_id is
\* not 0 went through the 3-byte form and came back unchanged
C15_Witness ==
    /\ RoundTrip
    /\ last.codec = "FrameMarking"
    /\ ~last.value.base_layer_sync
    /\ last.value.temporal_layer_id = 7
    /\ last.value.layer_id = 0
    /\ last.value.tl0_pic_idx = 0
    /\ last.data.size = 3
    /\ last.ret
    /\ last.out = last.value

\* C16: FrameMarking::ValueSize(v) is 1 iff base_layer_sync is false and each
\* of temporal_layer_id, layer_id and tl0_pic_idx is 0 or its "none" value,
\* and 3 otherwise; FrameMarking::Write(v) writes exactly ValueSize(v) bytes
\* and leaves destination bytes 1 and 2 as they were when ValueSize(v) is 1.
C16_FrameMarkingValueSize ==
    (last.op = "Write" /\ last.codec = "FrameMarking")
    => LET v == last.value
           plain == /\ ~v.base_layer_sync
                    /\ v.temporal_layer_id \in {0, kNoTemporalIdx}
                    /\ v.layer_id \in {0, kNoSpatialIdx}
                    /\ v.tl0_pic_idx \in {0, kNoTl0PicIdx}
       IN  /\ last.size = (IF plain THEN 1 ELSE 3)
           /\ last.written = 0..(last.size - 1)
           /\ \A i \in 1..Len(last.data) :
                i > last.size => last.data[i] = last.before[i]
           /\ last.size = 1 => /\ last.data[2] = last.before[2]
                               /\ last.data[3] = last.before[3]

\* C16 witness: a value whose three indices are all "none" was written as
\* one byte and the next two bytes of the destination kept their contents
C16_Witness ==
    /\ last.op = "Write"
    /\ last.codec = "FrameMarking"
    /\ last.value.temporal_layer_id = kNoTemporalIdx
    /\ last.value.layer_id = kNoSpatialIdx
    /\ last.value.tl0_pic_idx = kNoTl0PicIdx
    /\ last.value.start_of_frame
    /\ last.size = 1
    /\ last.data[1] >= 128
    /\ last.data[2] = DestMemory[2]
    /\ last.data[3] = DestMemory[3]

\* the number of bytes of the view last.data before its first 0 byte, or its
\* size if it holds none
C17_Prefix ==
    CHOOSE k \in 0..last.data.size :
        /\ \A i \in 1..k : last.data.mem[i] # 0
        /\ k = last.data.size \/ last.data.mem[k + 1] = 0

\* C17: RtpStreamId::Parse (string result) returns false iff the input is
\* empty or its first byte is 0; on success the string is the input up to,
\* and excluding, the first 0 byte or the end of the input, and no index
\* >= data.size() is read; RepairedRtpStreamId::Parse, ValueSize and Write
\* return what the RtpStreamId operation returns on the same input.
C17_StreamIdParse ==
    /\ (last.op = "Parse" /\ last.codec \in {"RtpStreamId", "RepairedRtpStreamId"})
        => /\ ~last.ret <=> (last.data.size = 0 \/ last.data.mem[1] = 0)
           /\ last.ret => /\ last.out.rsid = SubSeq(last.data.mem, 1, C17_Prefix)
                          /\ Len(last.out.rsid) <= last.data.size
           /\ \A i \in last.reads : i < last.data.size
    /\ (last.op = "Parse" /\ last.codec = "RepairedRtpStreamId")
        => LET r == RtpStreamId_Parse(last.data, last.before)
           IN  last.ret = r.ret /\ last.out = r.out
    /\ (last.op = "Write" /\ last.codec = "RepairedRtpStreamId")
        => LET w == RtpStreamId_Write(last.before, last.value)
           IN  /\ last.ret = w.ret
               /\ last.data = w.data
               /\ last.size = RtpStreamId_ValueSize(last.value)

\* C17 witness: a 16-byte view without a 0 byte, followed in memory by a
\* byte that is not 0, gave a 16-byte string
C17_Witness ==
    /\ last.op = "Parse"
    /\ last.codec = "RtpStreamId"
    /\ last.data.size = kMaxSize
    /\ \A i \in 1..(kMaxSize + 1) : last.data.mem[i] # 0
    /\ last.ret
    /\ Len(last.out.rsid) = kMaxSize
    /\ last.reads = 0..(kMaxSize - 1)

\* C18: PlayoutDelayLimits::Parse on a 3-byte input returns false iff the
\* upper 12-bit field (min_raw) is greater than the lower one (max_raw);
\* every PlayoutDelay it returns has min_ms = 10 * min_raw,
\* max_ms = 10 * max_raw and 0 <= min_ms <= max_ms <= 16380.
C18_PlayoutDelayParse ==
    (last.op = "Parse" /\ last.codec = "PlayoutDelayLimits" /\ last.data.size = 3)
    => LET raw     == 65536 * last.data.mem[1] + 256 * last.data.mem[2]
                      + last.data.mem[3]
           min_raw == raw \div 4096
           max_raw == raw % 4096
       IN  /\ ~last.ret <=> min_raw > max_raw
           /\ last.ret => /\ last.out.min_ms = 10 * min_raw
                          /\ last.out.max_ms = 10 * max_raw
                          /\ 0 <= last.out.min_ms
                          /\ last.out.min_ms <= last.out.max_ms
                          /\ last.out.max_ms <= 16380

\* the OHB the claim describes for the outer packet p of an engine of kind k
C19_OHB(k, p) ==
    << (IF p.marker THEN 128 ELSE 0) + p.pt,
       p.seq \div 256, p.seq % 256,
       (p.ts \div 16777216) % 256, (p.ts \div 65536) % 256,
       (p.ts \div 256) % 256, p.ts % 256 >>
    \o (IF k = "MediaCrypto"
        THEN << (p.ssrc \div 16777216) % 256, (p.ssrc \div 65536) % 256,
                (p.ssrc \div 256) % 256, p.ssrc % 256 >>
        ELSE << >>)

\* C19: in both engines the scratch buffer Encrypt hands to ProtectRtp has
\* byte 0 = 0x80, then the OHB of the outer packet (marker and payload type,
\* sequence number, timestamp and, for MediaCrypto only, SSRC, big-endian),
\* then the payload verbatim, and the input length is 1 + ohb_len +
\* payload_size.
C19_ScratchLayout ==
    (last.op = "Encrypt" /\ last.mallocs = 1)
    => /\ last.inner = <<128>> \o C19_OHB(kind, last.packet_in)
                              \o last.packet_in.payload
       /\ Len(C19_OHB(kind, last.packet_in)) = ohb_size(kind)
       /\ last.in_len = 1 + ohb_size(kind) + Len(last.packet_in.payload)

\* C19 witness: a keyed MediaCrypto handed ProtectRtp, and the SRTP engine,
\* the scratch buffer of a packet with the marker bit set and the longest
\* payload
C19_Witness ==
    /\ kind = "MediaCrypto"
    /\ last.op = "Encrypt"
    /\ last.called
    /\ last.packet_in.marker
    /\ Len(last.packet_in.payload) = MaxLen
    /\ last.inner[2] = 255
    /\ Len(last.inner) = 1 + MediaCrypto_ohb_size + MaxLen

\* the (rtp, rtcp) tag lengths C20 gives for each suite
C20_TagLens(cs) ==
    CASE cs = SRTP_AES128_CM_SHA1_80 -> <<10, 10>>
      [] cs = SRTP_AES128_CM_SHA1_32 -> <<4, 10>>
      [] cs = SRTP_AEAD_AES_128_GCM  -> <<16, 16>>
      [] cs = SRTP_AEAD_AES_256_GCM  -> <<16, 16>>
      [] OTHER -> <<0, 0>>

\* C20: in every reachable state of either engine both tag lengths are 0
\* while the engine is Unkeyed and, while it is Keyed, those of the suite of
\* the successful SetKey: (10, 10), (4, 10), (16, 16), (16, 16);
\* MediaCrypto::GetEncryptionOverhead returns 0 when Unkeyed and
\* 11 + rtp_auth_tag_len when Keyed, which is the growth of the payload
\* caused by a successful Encrypt.
C20_TagLengthsAndOverhead ==
    /\ \A x \in Engines :
         LET e == engines[x]
         IN  <<e.rtp_auth_tag_len_, e.rtcp_auth_tag_len_>> =
               (IF e.session_ = NullSession THEN <<0, 0>>
                ELSE C20_TagLens(e.session_.cs))
    /\ last.op = "GetEncryptionOverhead"
         => last.value = (IF last.pre.session_ = NullSession THEN 0
                          ELSE 11 + last.pre.rtp_auth_tag_len_)
    /\ (kind = "MediaCrypto" /\ last.op = "Encrypt" /\ last.ret)
         => Len(last.packet_out.payload) - Len(last.packet_in.payload)
              = MediaCrypto_GetEncryptionOverhead(last.pre)

\* C20 witness: a MediaCrypto keyed with AES-CM-128/HMAC-SHA1-32, whose two
\* tag lengths differ, encrypted a packet and its payload grew by 15 bytes
C20_Witness ==
    /\ kind = "MediaCrypto"
    /\ last.op = "Encrypt"
    /\ last.ret
    /\ last.pre.session_.cs = SRTP_AES128_CM_SHA1_32
    /\ engines["snd"].rtp_auth_tag_len_ = 4
    /\ engines["snd"].rtcp_auth_tag_len_ = 10
    /\ Len(last.packet_out.payload) = Len(last.packet_in.payload) + 15

\* C21: in Encrypt of both engines the comparison of ohb_len + payload_size +
\* rtp_auth_tag_len with MaxPayloadSize comes before the scratch buffer is
\* built: on a packet whose encrypted size would exceed MaxPayloadSize,
\* Encrypt returns false with no scratch allocation, no call of Protect or of
\* the SRTP engine, and the packet as it was.
C21_SizeCheckedBeforeBuild ==
    ( /\ last.op = "Encrypt"
      /\ ohb_size(kind) + Len(last.packet_in.payload)
           + last.pre.rtp_auth_tag_len_ > last.packet_in.max )
    => /\ ~last.ret
       /\ last.mallocs = 0
       /\ last.inner = <<>>
       /\ ~last.called
       /\ last.packet_out = last.packet_in

\* C21 witness: a keyed engine refused a packet whose encrypted size is one
\* byte more than MaxPayloadSize
C21_Witness ==
    /\ last.op = "Encrypt"
    /\ last.pre.session_.alloc
    /\ ohb_size(kind) + Len(last.packet_in.payload)
         + last.pre.rtp_auth_tag_len_ = last.packet_in.max + 1
    /\ last.exit = "exceeds_max"
    /\ ~last.ret
    /\ last.mallocs = 0

\* C22: every Encrypt and Decrypt call of either engine allocates at most one
\* scratch buffer and frees it exactly once before it returns, on every exit
\* path: in every state between calls no scratch buffer is live.
C22_ScratchScopedToCall ==
    /\ last.mallocs \in {0, 1}
    /\ last.frees = last.mallocs
    /\ last.op \in {"Encrypt", "Decrypt"}
         => (last.mallocs = 0 <=> last.exit \in {"exceeds_max", "too_small"}
                                  \/ (kind = "MediaCrypto" /\ last.exit = "no_session"))

\* C22 witness: the SRTP engine reported a replay to a keyed DoublePERC, whose
\* Decrypt had built its scratch buffer, failed and freed it
C22_Witness ==
    /\ kind = "DoublePERC"
    /\ last.op = "Decrypt"
    /\ last.status = "replay_fail"
    /\ ~last.ret
    /\ last.mallocs = 1
    /\ last.frees = 1

\* C23: over any sequence of calls on one engine object followed by its
\* destruction, srtp_create returns a handle at most once; the handle is
\* deallocated exactly once, by the destructor, if some key setup returned
\* true, and never if none did; no SetKey, Encrypt or Decrypt outcome, a
\* failed srtp_create included, deallocates or replaces a live handle.
C23_HandleLifecycle ==
    [][ /\ engines'.creates <= 1
        /\ engines'.creates = engines'.succeeded
        /\ engines'.alive => engines'.deallocs = 0
        /\ ~engines'.alive => engines'.deallocs = engines'.succeeded
        /\ (engines'.alive /\ engines.obj.session_ # NullSession)
             => engines'.obj.session_ = engines.obj.session_ ]_vars

\* C23 witness: an object keyed with an AES-GCM suite has been destroyed and
\* its handle deallocated once
C23_Witness ==
    /\ engines.obj.session_.cs = SRTP_AEAD_AES_256_GCM
    /\ last.op = "Destroy"
    /\ last.ret
    /\ ~engines.alive
    /\ engines.succeeded = 1
    /\ engines.creates = 1
    /\ engines.deallocs = 1

\* C24: VideoTimingExtension::Write(data, timing) writes 0 into bytes 8..11,
\* the two network slots, whatever the two network deltas of timing are;
\* VideoTimingExtension::Parse sets is_timing_frame to true on every
\* successful parse and leaves it alone on every failed one; the indexed
\* Write(data, delta, idx) puts delta, big-endian, into bytes 2*idx and
\* 2*idx+1 of the destination and changes no other byte.
C24_VideoTimingSlots ==
    /\ (last.op = "Write" /\ last.codec = "VideoTimingExtension")
         => /\ last.ret
            /\ \A i \in 8..11 : last.data[i + 1] = 0
    /\ (last.op = "Parse" /\ last.codec = "VideoTimingExtension")
         => /\ last.ret => last.out.is_timing_frame
            /\ ~last.ret => /\ last.out.is_timing_frame = last.before.is_timing_frame
                            /\ ~last.out.is_timing_frame
    /\ last.op = "WriteDelta"
         => /\ last.ret
            /\ last.data[2 * last.idx + 1] = last.delta \div 256
            /\ last.data[2 * last.idx + 2] = last.delta % 256
            /\ \A i \in 0..(MemLen - 1) :
                 i \notin {2 * last.idx, 2 * last.idx + 1}
                   => last.data[i + 1] = last.before[i + 1]

\* C24 witness: a timing whose two network deltas are not 0 was written, and
\* bytes 8..11 of the destination, which held other values, are 0
C24_Witness ==
    /\ last.op = "Write"
    /\ last.codec = "VideoTimingExtension"
    /\ last.value.network_timstamp_delta_ms = 513
    /\ last.value.network2_timstamp_delta_ms = 65535
    /\ \A i \in 9..12 : last.before[i] # 0 /\ last.data[i] = 0
    /\ last.data[13] = last.before[13]

\* C25: in both engines a session created through SetOutboundKey has the
\* any-outbound SSRC direction policy and one created through SetInboundKey
\* the any-inbound policy, and Decrypt on a receiver keyed with SetInboundKey
\* accepts the payload that Encrypt left on a sender keyed with
\* SetOutboundKey on the same suite and key.
C25_DirectionPolicies ==
    /\ (last.op = "SetKey" /\ last.ret)
         => engines[last.eng].session_.type =
              (IF last.setter = "SetOutboundKey" THEN ssrc_any_outbound
               ELSE ssrc_any_inbound)
    /\ ( /\ last.op = "Decrypt"
         /\ last.src = "Encrypt"
         /\ KeyedIdentically
         /\ last.verdict = "ok" )
         => last.ret

\* C26: for a keyed engine of either class, once Encrypt's comparison with
\* MaxPayloadSize has passed, the capacity Encrypt hands to ProtectRtp is at
\* least input_len + rtp_auth_tag_len, where input_len is 1 + ohb_len +
\* payload_size: ProtectRtp never fails with "buffer too small" and the SRTP
\* engine is always invoked.
C26_CapacitySuffices ==
    ( /\ last.op = "Encrypt"
      /\ last.pre.session_ # NullSession
      /\ ohb_size(kind) + Len(last.packet_in.payload)
           + last.pre.rtp_auth_tag_len_ <= last.packet_in.max )
    => /\ last.in_len = 1 + ohb_size(kind) + Len(last.packet_in.payload)
       /\ last.max_len >= last.in_len + last.pre.rtp_auth_tag_len_
       /\ last.exit # "buffer_too_small"
       /\ last.called

\* C27: every extension Parse is all-or-nothing: when a Parse call returns
\* false (wrong length, PlayoutDelay min_raw > max_raw, VideoContentType out
\* of range, StreamId empty or with a leading 0, FrameMarking length outside
\* {1, 3}) the caller's output value is exactly as it was before the call.
C27_ParseAllOrNothing ==
    (last.op = "Parse" /\ ~last.ret) => last.out = last.before

\* the turn loop of CheckTiming has completed without returning false
TurnLoopCompleted ==
    /\ last.turn_index = Len(engines.timing_)
    /\ last.exit \notin {"invalid_order", "cross_talk_3"}

\* two turns share a sample
TurnsOverlap(a, b) ==
    (IF a.begin > b.begin THEN a.begin ELSE b.begin)
      < (IF a.end < b.end THEN a.end ELSE b.end)

\* C28: whenever the turn loop of CheckTiming completes without returning
\* false, speaking_turns_ is sorted by non-decreasing begin timestamp and
\* total_duration_samples_ is the largest end timestamp of all turns (0 if
\* there is none); whenever CheckTiming returns true, no two turns of one
\* speaker overlap, adjacent or not.
C28_CheckTiming ==
    /\ TurnLoopCompleted
         => LET t == last.speaking_turns_
            IN  /\ Len(t) = Len(engines.timing_)
                /\ \A i, j \in 1..Len(t) : i < j => t[i].begin <= t[j].begin
                /\ \A i \in 1..Len(t) : t[i].end <= last.total_duration_samples_
                /\ \/ \E i \in 1..Len(t) : t[i].end = last.total_duration_samples_
                   \/ (Len(t) = 0 /\ last.total_duration_samples_ = 0)
    /\ (last.pc = "done" /\ last.ret)
         => /\ TurnLoopCompleted
            /\ LET t == last.speaking_turns_
               IN  \A i, j \in 1..Len(t) :
                     (i # j /\ t[i].speaker_name = t[j].speaker_name)
                       => ~TurnsOverlap(t[i], t[j])

\* C28 witness: CheckTiming returned true for three turns, the second of
\* which, by another speaker, begins inside the first, and the first and the
\* third are by the same speaker
C28_Witness ==
    /\ last.pc = "done"
    /\ last.ret
    /\ Len(last.speaking_turns_) = 3
    /\ last.speaking_turns_[1].speaker_name = last.speaking_turns_[3].speaker_name
    /\ last.speaking_turns_[1].speaker_name # last.speaking_turns_[2].speaker_name
    /\ TurnsOverlap(last.speaking_turns_[1], last.speaking_turns_[2])
    /\ last.total_duration_samples_ = last.speaking_turns_[3].end

====
